---- MODULE Spec2Model ----
(***************************************************************************)
(* A model of package lib of haydenrear/go-env (src/configs.go).            *)
(*                                                                         *)
(* LoadConfig decodes a TOML file into a caller-supplied record and then   *)
(* calls LoadEnv, which walks the record by reflection and overwrites      *)
(* every field tagged `env:"VAR"` whose variable is set.                   *)
(*                                                                         *)
(* Representation                                                          *)
(*   text      a Go string is the sequence of its characters, each a      *)
(*             one-character string; a character that cannot be written  *)
(*             so (a control character, a character beyond ASCII) is the  *)
(*             string of its code point, as "U+000B";                     *)
(*   type      a reflect.Type is a record with a kind k (and bits, elem    *)
(*             or name); struct types are named and their fields are       *)
(*             looked up in StructFields, so a type may refer to itself    *)
(*             through a pointer exactly as in Go;                         *)
(*   value     string: text; bool: BOOLEAN; int/uint: integer; float,     *)
(*             duration, time.Time: records; slice: [nil, elems];          *)
(*             pointer: an address (0 is nil); struct: the tuple of its    *)
(*             field values; map: [nil, len];                              *)
(*   memory    a sequence of objects [t, v]; an address is an index;       *)
(*             reflect.New appends an object;                              *)
(*   location  an addressable reflect.Value is an address and a path of    *)
(*             field indices inside the object at that address.            *)
(***************************************************************************)
EXTENDS Integers, Sequences, FiniteSets, TLC

(***************************************************************************)
(* Text                                                                    *)
(***************************************************************************)
Digits == <<"0", "1", "2", "3", "4", "5", "6", "7", "8", "9">>

IsDigit(c) == \E i \in 1..10 : Digits[i] = c

DigitVal(c) == (CHOOSE i \in 1..10 : Digits[i] = c) - 1

\* The characters beyond printable ASCII that a text of the model can hold:
\* the controls \t \n \f \r, and by code point U+0000, U+0007, U+0008,
\* U+000B (\v), U+001B, U+0085, U+00A0, U+00B5 (the micro sign), U+00E9,
\* U+03BC (the Greek mu) and the spaces of category Z.

\* unicode.IsSpace: the ASCII space, \t \n \v \f \r, U+0085, U+00A0 and
\* the characters of category Z.
Spaces ==
    {" ", "\t", "\n", "\f", "\r", "U+000B", "U+0085", "U+00A0", "U+1680",
     "U+2000", "U+2001", "U+2002", "U+2003", "U+2004", "U+2005", "U+2006",
     "U+2007", "U+2008", "U+2009", "U+200A", "U+2028", "U+2029", "U+202F",
     "U+205F", "U+3000"}

IsSpace(c) == c \in Spaces

\* What strconv.Quote writes for a character other than the double quote
\* and the backslash: its escape when it is not printable, else itself.
Escaped(c) ==
    CASE c = "\t" -> "\\t"
      [] c = "\n" -> "\\n"
      [] c = "\f" -> "\\f"
      [] c = "\r" -> "\\r"
      [] c = "U+0000" -> "\\x00"
      [] c = "U+0007" -> "\\a"
      [] c = "U+0008" -> "\\b"
      [] c = "U+000B" -> "\\v"
      [] c = "U+001B" -> "\\x1b"
      [] c = "U+0085" -> "\\u0085"
      [] c = "U+00A0" -> "\\u00a0"
      [] c = "U+1680" -> "\\u1680"
      [] c = "U+2000" -> "\\u2000"
      [] c = "U+2001" -> "\\u2001"
      [] c = "U+2002" -> "\\u2002"
      [] c = "U+2003" -> "\\u2003"
      [] c = "U+2004" -> "\\u2004"
      [] c = "U+2005" -> "\\u2005"
      [] c = "U+2006" -> "\\u2006"
      [] c = "U+2007" -> "\\u2007"
      [] c = "U+2008" -> "\\u2008"
      [] c = "U+2009" -> "\\u2009"
      [] c = "U+200A" -> "\\u200a"
      [] c = "U+2028" -> "\\u2028"
      [] c = "U+2029" -> "\\u2029"
      [] c = "U+202F" -> "\\u202f"
      [] c = "U+205F" -> "\\u205f"
      [] c = "U+3000" -> "\\u3000"
      [] OTHER -> c

\* The bytes of a text, its UTF-8 encoding.  A byte that is a printable
\* ASCII character is written as that character, any other byte as its \x
\* escape: the tab is "\\x09" and U+00E9 the two bytes "\\xc3", "\\xa9".
\* A byte encodes as itself, so that the bytes of a sequence of bytes are
\* that sequence.
Utf8(c) ==
    CASE c = "\t" -> <<"\\x09">>
      [] c = "\n" -> <<"\\x0a">>
      [] c = "\f" -> <<"\\x0c">>
      [] c = "\r" -> <<"\\x0d">>
      [] c = "U+0000" -> <<"\\x00">>
      [] c = "U+0007" -> <<"\\x07">>
      [] c = "U+0008" -> <<"\\x08">>
      [] c = "U+000B" -> <<"\\x0b">>
      [] c = "U+001B" -> <<"\\x1b">>
      [] c = "U+0085" -> <<"\\xc2", "\\x85">>
      [] c = "U+00A0" -> <<"\\xc2", "\\xa0">>
      [] c = "U+00B5" -> <<"\\xc2", "\\xb5">>
      [] c = "U+00E9" -> <<"\\xc3", "\\xa9">>
      [] c = "U+03BC" -> <<"\\xce", "\\xbc">>
      [] c = "U+1680" -> <<"\\xe1", "\\x9a", "\\x80">>
      [] c = "U+2000" -> <<"\\xe2", "\\x80", "\\x80">>
      [] c = "U+2001" -> <<"\\xe2", "\\x80", "\\x81">>
      [] c = "U+2002" -> <<"\\xe2", "\\x80", "\\x82">>
      [] c = "U+2003" -> <<"\\xe2", "\\x80", "\\x83">>
      [] c = "U+2004" -> <<"\\xe2", "\\x80", "\\x84">>
      [] c = "U+2005" -> <<"\\xe2", "\\x80", "\\x85">>
      [] c = "U+2006" -> <<"\\xe2", "\\x80", "\\x86">>
      [] c = "U+2007" -> <<"\\xe2", "\\x80", "\\x87">>
      [] c = "U+2008" -> <<"\\xe2", "\\x80", "\\x88">>
      [] c = "U+2009" -> <<"\\xe2", "\\x80", "\\x89">>
      [] c = "U+200A" -> <<"\\xe2", "\\x80", "\\x8a">>
      [] c = "U+2028" -> <<"\\xe2", "\\x80", "\\xa8">>
      [] c = "U+2029" -> <<"\\xe2", "\\x80", "\\xa9">>
      [] c = "U+202F" -> <<"\\xe2", "\\x80", "\\xaf">>
      [] c = "U+205F" -> <<"\\xe2", "\\x81", "\\x9f">>
      [] c = "U+3000" -> <<"\\xe3", "\\x80", "\\x80">>
      [] OTHER -> <<c>>

RECURSIVE Bytes(_)
Bytes(s) == IF s = <<>> THEN <<>> ELSE Utf8(Head(s)) \o Bytes(Tail(s))

Uppers == <<"A", "B", "C", "D", "E", "F", "G", "H", "I", "J", "K", "L", "M",
            "N", "O", "P", "Q", "R", "S", "T", "U", "V", "W", "X", "Y", "Z">>

Lowers == <<"a", "b", "c", "d", "e", "f", "g", "h", "i", "j", "k", "l", "m",
            "n", "o", "p", "q", "r", "s", "t", "u", "v", "w", "x", "y", "z">>

\* An ASCII letter in lower case; any other character as it is.
Lower(c) ==
    IF \E i \in 1..Len(Uppers) : Uppers[i] = c
    THEN Lowers[CHOOSE i \in 1..Len(Uppers) : Uppers[i] = c]
    ELSE c

DropN(s, n) == SubSeq(s, n + 1, Len(s))

TakeN(s, n) == SubSeq(s, 1, n)

RECURSIVE Pow10(_)
Pow10(n) == IF n = 0 THEN 1 ELSE 10 * Pow10(n - 1)

RECURSIVE Pow2(_)
Pow2(n) == IF n = 0 THEN 1 ELSE 2 * Pow2(n - 1)

\* strings.TrimSpace, from the left and from the right.
RECURSIVE TrimLeft(_)
TrimLeft(s) == IF s # <<>> /\ IsSpace(Head(s)) THEN TrimLeft(Tail(s)) ELSE s

RECURSIVE TrimRight(_)
TrimRight(s) ==
    IF s # <<>> /\ IsSpace(s[Len(s)]) THEN TrimRight(SubSeq(s, 1, Len(s) - 1)) ELSE s

TrimSpace(s) == TrimRight(TrimLeft(s))

\* strings.Split(s, ","): the text between the commas, empty pieces kept;
\* cur is the piece being read.
RECURSIVE SplitOn(_, _)
SplitOn(s, cur) ==
    IF s = <<>> THEN <<cur>>
    ELSE IF Head(s) = "," THEN <<cur>> \o SplitOn(Tail(s), <<>>)
    ELSE SplitOn(Tail(s), Append(cur, Head(s)))

Split(s) == SplitOn(s, <<>>)

\* The loop of splitComma over raw: trim each piece, keep the non-empty ones.
RECURSIVE KeepTrimmed(_)
KeepTrimmed(raw) ==
    IF raw = <<>> THEN <<>>
    ELSE LET r == TrimSpace(Head(raw))
         IN  IF r # <<>> THEN <<r>> \o KeepTrimmed(Tail(raw))
             ELSE KeepTrimmed(Tail(raw))

\* A variant that keeps the pieces as they are cut.
splitCommaUntrimmed(s) == Split(s)

splitComma(s) == KeepTrimmed(Split(s))

(***************************************************************************)
(* Errors.  A Go error is modelled by its message, a sequence of pieces    *)
(* whose concatenation is err.Error(); the nil error is NoError.           *)
(***************************************************************************)
NoError == <<>>

\* strconv.Quote: a double quote and a backslash get a backslash, a
\* character that is not printable its escape, any other is written as it is.
RECURSIVE QuoteRunes(_)
QuoteRunes(s) ==
    IF s = <<>> THEN <<>>
    ELSE <<IF Head(s) = "\"" THEN "\\\""
           ELSE IF Head(s) = "\\" THEN "\\\\"
           ELSE Escaped(Head(s))>> \o QuoteRunes(Tail(s))

Quote(s) == <<"\"">> \o QuoteRunes(s) \o <<"\"">>

\* quote of package time, over the bytes of the text: a double quote and a
\* backslash get a backslash, a byte below the space or beyond ASCII is
\* written as its \x escape, any other as it is.
RECURSIVE TimeQuoteRunes(_)
TimeQuoteRunes(b) ==
    IF b = <<>> THEN <<>>
    ELSE <<IF Head(b) = "\"" THEN "\\\""
           ELSE IF Head(b) = "\\" THEN "\\\\"
           ELSE Head(b)>> \o TimeQuoteRunes(Tail(b))

TimeQuote(s) == <<"\"">> \o TimeQuoteRunes(Bytes(s)) \o <<"\"">>

\* strconv's *NumError: "strconv.<fn>: parsing <quoted s>: <msg>".
NumError(fn, s, msg) == <<"strconv.", fn, ": parsing ">> \o Quote(s) \o <<": ", msg>>

ErrSyntax == "invalid syntax"

ErrRange == "value out of range"

Ok(val) == [err |-> NoError, val |-> val]

Fail(err) == [err |-> err, val |-> 0]

(***************************************************************************)
(* strconv.ParseBool                                                       *)
(***************************************************************************)
ParseBool(s) ==
    IF s \in {<<"1">>, <<"t">>, <<"T">>, <<"T", "R", "U", "E">>,
              <<"t", "r", "u", "e">>, <<"T", "r", "u", "e">>} THEN Ok(TRUE)
    ELSE IF s \in {<<"0">>, <<"f">>, <<"F">>, <<"F", "A", "L", "S", "E">>,
                   <<"f", "a", "l", "s", "e">>, <<"F", "a", "l", "s", "e">>} THEN Ok(FALSE)
    ELSE Fail(NumError("ParseBool", s, ErrSyntax))

(***************************************************************************)
(* strconv.ParseUint(s, 10, bits) and strconv.ParseInt(s, 10, bits).       *)
(* The digit loop returns at the first character that is not a digit       *)
(* (syntax) or at the first digit that takes the value past the width      *)
(* (range), whichever comes first.  An integer of TLC has 32 bits:         *)
(* a text of the model holds at most nine digits, which a width above 30   *)
(* bits always fits.                                                       *)
(***************************************************************************)
FitsUnsigned(n, bits) == bits > 30 \/ n <= Pow2(bits) - 1

\* The loop of ParseUint: n is the value read so far.
RECURSIVE UintLoop(_, _, _)
UintLoop(s, n, bits) ==
    IF s = <<>> THEN [st |-> "ok", n |-> n]
    ELSE IF ~IsDigit(Head(s)) THEN [st |-> "syntax", n |-> 0]
    ELSE LET n1 == n * 10 + DigitVal(Head(s))
         IN  IF ~FitsUnsigned(n1, bits) THEN [st |-> "range", n |-> 0]
             ELSE UintLoop(Tail(s), n1, bits)

ParseUint(s, bits) ==
    IF s = <<>> THEN Fail(NumError("ParseUint", s, ErrSyntax))
    ELSE LET r == UintLoop(s, 0, bits)
         IN  IF r.st = "syntax" THEN Fail(NumError("ParseUint", s, ErrSyntax))
             ELSE IF r.st = "range" THEN Fail(NumError("ParseUint", s, ErrRange))
             ELSE Ok(r.n)

ParseInt(s, bits) ==
    IF s = <<>> THEN Fail(NumError("ParseInt", s, ErrSyntax))
    ELSE LET neg  == Head(s) = "-"
             body == IF Head(s) \in {"+", "-"} THEN Tail(s) ELSE s
             r    == IF body = <<>> THEN [st |-> "syntax", n |-> 0]
                     ELSE UintLoop(body, 0, bits)
         IN  IF r.st = "syntax" THEN Fail(NumError("ParseInt", s, ErrSyntax))
             ELSE IF r.st = "range" THEN Fail(NumError("ParseInt", s, ErrRange))
             \* cutoff = 1 << (bits-1): un >= cutoff, or un > cutoff when negative
             ELSE IF bits <= 30 /\ ~neg /\ r.n >= Pow2(bits - 1)
                  THEN Fail(NumError("ParseInt", s, ErrRange))
             ELSE IF bits <= 30 /\ neg /\ r.n > Pow2(bits - 1)
                  THEN Fail(NumError("ParseInt", s, ErrRange))
             ELSE Ok(IF neg THEN 0 - r.n ELSE r.n)

(***************************************************************************)
(* time.ParseDuration: an optional sign, then one or more segments of a    *)
(* decimal number (digits, with an optional point) and a unit; or "0".     *)
(* A Duration is an int64 count of nanoseconds, which does not fit an      *)
(* integer of TLC: the value is kept as [neg, sec, ns] with                *)
(* ns < 10^9.  On the texts of the model (at most five digits before and   *)
(* five after the point, a few segments) the int64 overflow checks of the  *)
(* source cannot fire and the float64 product f * (unit / scale) is exact. *)
(***************************************************************************)
DurationOf(neg, sec, ns) == [neg |-> neg /\ (sec # 0 \/ ns # 0), sec |-> sec, ns |-> ns]

\* unitMap: "ns", "us", "µs" (U+00B5), "μs" (U+03BC), "ms", "s", "m", "h".
UnitTexts == {<<"n", "s">>, <<"u", "s">>, <<"U+00B5", "s">>, <<"U+03BC", "s">>,
              <<"m", "s">>, <<"s">>, <<"m">>, <<"h">>}

UnitSec(u) == IF u = <<"s">> THEN 1 ELSE IF u = <<"m">> THEN 60
              ELSE IF u = <<"h">> THEN 3600 ELSE 0

UnitNs(u) == IF u = <<"n", "s">> THEN 1
             ELSE IF u \in {<<"u", "s">>, <<"U+00B5", "s">>, <<"U+03BC", "s">>} THEN 1000
             ELSE IF u = <<"m", "s">> THEN 1000000 ELSE 0

\* The number of leading characters of s that are digits.
RECURSIVE DigitRun(_)
DigitRun(s) == IF s # <<>> /\ IsDigit(Head(s)) THEN 1 + DigitRun(Tail(s)) ELSE 0

\* The value of a text of digits (leadingInt, leadingFraction).
RECURSIVE DigitsVal(_)
DigitsVal(s) ==
    IF s = <<>> THEN 0 ELSE DigitsVal(SubSeq(s, 1, Len(s) - 1)) * 10 + DigitVal(s[Len(s)])

\* The number of leading characters of s that are neither '.' nor a digit.
RECURSIVE UnitRun(_)
UnitRun(s) ==
    IF s # <<>> /\ Head(s) # "." /\ ~IsDigit(Head(s)) THEN 1 + UnitRun(Tail(s)) ELSE 0

\* v * unit, in nanoseconds, as [sec, ns].
WholePart(v, u) ==
    IF UnitSec(u) > 0 THEN [sec |-> v * UnitSec(u), ns |-> 0]
    ELSE LET perSec == Pow10(9) \div UnitNs(u)
         IN  [sec |-> v \div perSec, ns |-> (v % perSec) * UnitNs(u)]

\* uint64(float64(f) * (float64(unit) / scale)), as [sec, ns].
FracPart(f, scale, u) ==
    IF UnitSec(u) > 0
    THEN [sec |-> (f * UnitSec(u)) \div scale,
          ns  |-> ((f * UnitSec(u)) % scale) * (Pow10(9) \div scale)]
    ELSE IF scale <= UnitNs(u) THEN [sec |-> 0, ns |-> f * (UnitNs(u) \div scale)]
    ELSE [sec |-> 0, ns |-> f \div (scale \div UnitNs(u))]

AddDur(a, b) == [sec |-> a.sec + b.sec + ((a.ns + b.ns) \div Pow10(9)),
                 ns  |-> (a.ns + b.ns) % Pow10(9)]

DurErr(msg, orig) == <<msg>> \o TimeQuote(orig)

\* The segment loop of ParseDuration: s is the text left, d the sum so far.
RECURSIVE DurLoop(_, _, _, _)
DurLoop(s, d, neg, orig) ==
    IF s = <<>> THEN Ok(DurationOf(neg, d.sec, d.ns))
    ELSE IF ~(Head(s) = "." \/ IsDigit(Head(s)))
         THEN Fail(DurErr("time: invalid duration ", orig))
    ELSE LET nInt   == DigitRun(s)
             v      == DigitsVal(TakeN(s, nInt))
             s1     == DropN(s, nInt)
             hasDot == s1 # <<>> /\ Head(s1) = "."
             s2     == IF hasDot THEN Tail(s1) ELSE s1
             nFrac  == IF hasDot THEN DigitRun(s2) ELSE 0
             f      == DigitsVal(TakeN(s2, nFrac))
             scale  == Pow10(nFrac)
             s3     == DropN(s2, nFrac)
             i      == UnitRun(s3)
             u      == TakeN(s3, i)
         IN  IF nInt = 0 /\ nFrac = 0
             THEN Fail(DurErr("time: invalid duration ", orig))
             ELSE IF i = 0 THEN Fail(DurErr("time: missing unit in duration ", orig))
             ELSE IF u \notin UnitTexts
                  THEN Fail(<<"time: unknown unit ">> \o TimeQuote(u)
                            \o <<" in duration ">> \o TimeQuote(orig))
             ELSE DurLoop(DropN(s3, i),
                          AddDur(d, AddDur(WholePart(v, u),
                                           IF f > 0 THEN FracPart(f, scale, u)
                                           ELSE [sec |-> 0, ns |-> 0])),
                          neg, orig)

ParseDuration(s) ==
    LET neg  == s # <<>> /\ Head(s) = "-"
        body == IF s # <<>> /\ Head(s) \in {"+", "-"} THEN Tail(s) ELSE s
    IN  IF body = <<"0">> THEN Ok(DurationOf(FALSE, 0, 0))
        ELSE IF body = <<>> THEN Fail(DurErr("time: invalid duration ", s))
        ELSE DurLoop(body, [sec |-> 0, ns |-> 0], neg, s)

(***************************************************************************)
(* time.Parse(time.RFC3339, s), layout "2006-01-02T15:04:05Z07:00": a     *)
(* four-digit year, two-digit month and day, an hour of one or two digits, *)
(* two-digit minute and second, an optional fraction (a point or a comma   *)
(* and digits, the layout naming none), then "Z" or a signed hh:mm offset. *)
(* The value is kept as the fields read, the fraction in nanoseconds, the  *)
(* offset in seconds and utc for "Z".  time.Parse reads the value byte by  *)
(* byte: the texts these definitions take are sequences of bytes, and the  *)
(* lengths and indexes in them count bytes.                                *)
(***************************************************************************)
TimeOf(Y, M, D, h, m, sec, ns, off, utc) ==
    [year |-> Y, month |-> M, day |-> D, hour |-> h, min |-> m, sec |-> sec,
     ns |-> ns, off |-> off, utc |-> utc]

\* The layout time.RFC3339, as ParseError.Error quotes it.
Layout == "\"2006-01-02T15:04:05Z07:00\""

\* ParseError.Error with a Message: a value out of range, or extra text.
TimeErr(s, msg) == <<"parsing time ">> \o TimeQuote(s) \o <<msg>>

\* ParseError.Error without a Message: what is left of the value at the
\* element of the layout (elem) that it does not match.
CannotParse(s, rest, elem) ==
    <<"parsing time ">> \o TimeQuote(s) \o <<" as ", Layout, ": cannot parse ">>
        \o TimeQuote(rest) \o <<" as ", "\"", elem, "\"">>

ExtraText(s, rest) == TimeErr(s, ": extra text: ") \o TimeQuote(rest)

\* getnum(s, fixed): a number of two digits, or of one when not fixed.
GetNum(s, fixed) ==
    IF DigitRun(s) = 0 THEN [ok |-> FALSE, n |-> 0, rest |-> s]
    ELSE IF DigitRun(s) = 1
         THEN IF fixed THEN [ok |-> FALSE, n |-> 0, rest |-> s]
              ELSE [ok |-> TRUE, n |-> DigitVal(s[1]), rest |-> Tail(s)]
    ELSE [ok |-> TRUE, n |-> DigitVal(s[1]) * 10 + DigitVal(s[2]), rest |-> DropN(s, 2)]

\* skip(value, prefix) for a one-character literal of the layout.
Skips(s, c) == s # <<>> /\ Head(s) = c

IsLeap(y) == y % 4 = 0 /\ (y % 100 # 0 \/ y % 400 = 0)

DaysIn(m, y) ==
    IF m = 2 THEN (IF IsLeap(y) THEN 29 ELSE 28)
    ELSE IF m \in {4, 6, 9, 11} THEN 30 ELSE 31

\* parseNanoseconds: the digits after the separator, cut or padded to nine.
FracNanos(ds) ==
    IF Len(ds) >= 9 THEN DigitsVal(TakeN(ds, 9)) ELSE DigitsVal(ds) * Pow10(9 - Len(ds))

\* The zone of the layout, the check that nothing follows it, and the
\* check of the day that ends the parse.  The two numbers of an offset are
\* tested against their ranges before a failure to read them is reported,
\* a number that was not read being 0, and the minute is tested last.
\* An offset is six bytes: the sign value[0], the hour value[1:3], a colon
\* at value[3] and the minute value[4:6].
ParseZone(orig, z, Y, M, D, h, m, sec, ns) ==
    LET done(rest, off, utc) ==
            IF rest # <<>> THEN Fail(ExtraText(orig, rest))
            ELSE IF D < 1 \/ D > DaysIn(M, Y) THEN Fail(TimeErr(orig, ": day out of range"))
            ELSE Ok(TimeOf(Y, M, D, h, m, sec, ns, off, utc))
        bad == Fail(CannotParse(orig, z, "Z07:00"))
    IN  IF z # <<>> /\ Head(z) = "Z" THEN done(Tail(z), 0, TRUE)
        ELSE IF Len(z) < 6 \/ z[4] # ":" THEN bad
        ELSE LET hr == GetNum(SubSeq(z, 2, 3), TRUE)
                 mm == IF hr.ok THEN GetNum(SubSeq(z, 5, 6), TRUE)
                       ELSE [ok |-> FALSE, n |-> 0, rest |-> <<>>]
             IN  IF mm.n > 60
                 THEN Fail(TimeErr(orig, ": time zone offset minute out of range"))
                 ELSE IF hr.n > 24
                      THEN Fail(TimeErr(orig, ": time zone offset hour out of range"))
                 ELSE IF ~hr.ok \/ ~mm.ok THEN bad
                 ELSE IF z[1] = "+" THEN done(DropN(z, 6), (hr.n * 60 + mm.n) * 60, FALSE)
                 ELSE IF z[1] = "-"
                      THEN done(DropN(z, 6), 0 - (hr.n * 60 + mm.n) * 60, FALSE)
                 ELSE bad

\* The clock of the layout, from the hour on.
ParseClock(orig, c, Y, M, D) ==
    LET hr  == GetNum(c, FALSE)
        mi  == GetNum(Tail(hr.rest), TRUE)
        se  == GetNum(Tail(mi.rest), TRUE)
        r   == se.rest
        hasFrac == Len(r) >= 2 /\ r[1] \in {".", ","} /\ IsDigit(r[2])
        nFrac   == IF hasFrac THEN DigitRun(Tail(r)) ELSE 0
        ns  == IF hasFrac THEN FracNanos(SubSeq(r, 2, 1 + nFrac)) ELSE 0
        z   == IF hasFrac THEN DropN(r, 1 + nFrac) ELSE r
    IN  IF ~hr.ok THEN Fail(CannotParse(orig, c, "15"))
        ELSE IF hr.n >= 24 THEN Fail(TimeErr(orig, ": hour out of range"))
        ELSE IF ~Skips(hr.rest, ":") THEN Fail(CannotParse(orig, hr.rest, ":"))
        ELSE IF ~mi.ok THEN Fail(CannotParse(orig, Tail(hr.rest), "04"))
        ELSE IF mi.n >= 60 THEN Fail(TimeErr(orig, ": minute out of range"))
        ELSE IF ~Skips(mi.rest, ":") THEN Fail(CannotParse(orig, mi.rest, ":"))
        ELSE IF ~se.ok THEN Fail(CannotParse(orig, Tail(mi.rest), "05"))
        ELSE IF se.n >= 60 THEN Fail(TimeErr(orig, ": second out of range"))
        ELSE ParseZone(orig, z, Y, M, D, hr.n, mi.n, se.n, ns)

ParseTime(s) ==
    CHOOSE x \in
      { LET Y   == DigitsVal(TakeN(b, 4))
            mo  == GetNum(DropN(b, 5), TRUE)
            da  == GetNum(Tail(mo.rest), TRUE)
        IN  IF Len(b) < 4 \/ DigitRun(TakeN(b, 4)) < 4
            THEN Fail(CannotParse(b, b, "2006"))
            ELSE IF ~Skips(DropN(b, 4), "-") THEN Fail(CannotParse(b, DropN(b, 4), "-"))
            ELSE IF ~mo.ok THEN Fail(CannotParse(b, DropN(b, 5), "01"))
            ELSE IF mo.n <= 0 \/ mo.n > 12 THEN Fail(TimeErr(b, ": month out of range"))
            ELSE IF ~Skips(mo.rest, "-") THEN Fail(CannotParse(b, mo.rest, "-"))
            ELSE IF ~da.ok THEN Fail(CannotParse(b, Tail(mo.rest), "02"))
            ELSE IF ~Skips(da.rest, "T") THEN Fail(CannotParse(b, da.rest, "T"))
            ELSE ParseClock(b, Tail(da.rest), Y, mo.n, da.n)
        : b \in {Bytes(s)} } : TRUE

(***************************************************************************)
(* Naturals beyond the integers of TLC, for the mantissas of floats: a     *)
(* natural is the sequence of its digits in base 2^15, the least first and *)
(* the last not 0; <<>> is 0.                                              *)
(***************************************************************************)
LimbBits == 15

Limb == 32768

RECURSIVE Big(_)
Big(n) == IF n = 0 THEN <<>> ELSE <<n % Limb>> \o Big(n \div Limb)

\* The digits lo..hi of b times m, plus carry: [d, c], the digits and the
\* carry out.  The range is halved, the low half handing its carry to the
\* high one, so that the depth of the evaluation is the logarithm of the
\* length.
RECURSIVE MulRange(_, _, _, _, _)
MulRange(b, m, carry, lo, hi) ==
    IF lo > hi THEN [d |-> <<>>, c |-> carry]
    ELSE IF lo = hi
         THEN [d |-> <<(b[lo] * m + carry) % Limb>>, c |-> (b[lo] * m + carry) \div Limb]
    ELSE LET mid == (lo + hi) \div 2
         IN  CHOOSE x \in UNION
               { { [d |-> l.d \o h.d, c |-> h.c]
                   : h \in {MulRange(b, m, l.c, mid + 1, hi)} }
                 : l \in {MulRange(b, m, carry, lo, mid)} } : TRUE

\* b * m + carry, for m from 1 and carry from 0, both below Limb
MulSmall(b, m, carry) ==
    CHOOSE x \in { w.d \o Big(w.c) : w \in {MulRange(b, m, carry, 1, Len(b))} } : TRUE

\* The digits hi..lo of b, after the remainder rem of the digits above
\* them, divided by d: [q, r], the digits of the quotient and the
\* remainder left.
RECURSIVE DivRange(_, _, _, _, _)
DivRange(b, d, rem, lo, hi) ==
    IF lo > hi THEN [q |-> <<>>, r |-> rem]
    ELSE IF lo = hi
         THEN [q |-> <<(rem * Limb + b[lo]) \div d>>, r |-> (rem * Limb + b[lo]) % d]
    ELSE LET mid == (lo + hi) \div 2
         IN  CHOOSE x \in UNION
               { { [q |-> l.q \o h.q, r |-> l.r]
                   : l \in {DivRange(b, d, h.r, lo, mid)} }
                 : h \in {DivRange(b, d, rem, mid + 1, hi)} } : TRUE

\* b divided by d, for d from 1 below Limb: [q, r], the quotient without
\* the zeros at its end
DivSmall(b, d) ==
    CHOOSE x \in
      { [q |-> SubSeq(w.q, 1, Len(w.q) - Cardinality(
                   {i \in 1..Len(w.q) : \A j \in i..Len(w.q) : w.q[j] = 0})),
         r |-> w.r]
        : w \in {DivRange(b, d, 0, 1, Len(b))} } : TRUE

RECURSIVE MulPow10(_, _)
MulPow10(b, k) ==
    IF k = 0 THEN b
    ELSE IF k <= 4 THEN MulSmall(b, Pow10(k), 0)
    ELSE CHOOSE x \in { MulPow10(w, k - k \div 2)
                        : w \in {MulPow10(b, k \div 2)} } : TRUE

\* b divided by 10^k: [q, sticky], sticky telling that the division, or
\* one before it, left a remainder
RECURSIVE DivPow10(_, _, _)
DivPow10(b, k, sticky) ==
    IF k = 0 THEN [q |-> b, sticky |-> sticky]
    ELSE IF k <= 4
         THEN CHOOSE x \in { [q |-> w.q, sticky |-> sticky \/ w.r # 0]
                             : w \in {DivSmall(b, Pow10(k))} } : TRUE
    ELSE CHOOSE x \in { DivPow10(w.q, k - k \div 2, w.sticky)
                        : w \in {DivPow10(b, k \div 2, sticky)} } : TRUE

\* b divided by 2^d: [q, sticky]
ShiftRight(b, d) ==
    LET n == d \div LimbBits
    IN  CHOOSE x \in
          { [q |-> w.q,
             sticky |-> w.r # 0 \/ \E i \in 1..n : i <= Len(b) /\ b[i] # 0]
            : w \in {DivSmall(SubSeq(b, n + 1, Len(b)), Pow2(d % LimbBits))} } : TRUE

\* b + 1: the digits below the first that is not Limb - 1 turn to 0
AddOne(b) ==
    LET low == {i \in 1..Len(b) : b[i] # Limb - 1}
        k   == IF low = {} THEN Len(b) + 1 ELSE CHOOSE i \in low : \A j \in low : i <= j
    IN  [j \in 1..(IF k > Len(b) THEN k ELSE Len(b)) |->
            IF j < k THEN 0 ELSE IF j = k THEN (IF k > Len(b) THEN 1 ELSE b[j] + 1)
            ELSE b[j]]

RECURSIVE BitLen(_)
BitLen(n) == IF n = 0 THEN 0 ELSE 1 + BitLen(n \div 2)

BigBitLen(b) == IF b = <<>> THEN 0 ELSE LimbBits * (Len(b) - 1) + BitLen(b[Len(b)])

(***************************************************************************)
(* strconv.ParseFloat(s, bits): "NaN", a signed "Inf" or "Infinity" (in    *)
(* any case), a decimal number with an optional 'e' exponent, or a         *)
(* hexadecimal number ("0x") with a 'p' exponent; underscores may separate *)
(* digits.  The float returned is the float of the given size nearest to   *)
(* the number written, the even one of two equally near.  A float is kept  *)
(* as [kind, neg, mant, e2] for the number mant * 2^e2, mant an odd        *)
(* natural (or 0, with e2 = 0), so that "0.25" and "0x1p-2", and any two   *)
(* texts that round to one float, are one value.                           *)
(***************************************************************************)
FloatOf(kind, neg, mant, e2) == [kind |-> kind, neg |-> neg, mant |-> mant, e2 |-> e2]

\* The number of times 2 divides n, for n from 1
RECURSIVE TwosIn(_)
TwosIn(n) == IF n % 2 = 1 THEN 0 ELSE 1 + TwosIn(n \div 2)

\* mant * 2^e2 with the factors 2 of mant moved to the exponent
Normal(neg, mant, e2) ==
    IF mant = <<>> THEN FloatOf("num", neg, <<>>, 0)
    ELSE LET first == CHOOSE i \in 1..Len(mant) :
                         mant[i] # 0 /\ \A j \in 1..(i - 1) : mant[j] = 0
             twos  == TwosIn(mant[first])
         IN  FloatOf("num", neg,
                     DivSmall(SubSeq(mant, first, Len(mant)), Pow2(twos)).q,
                     e2 + LimbBits * (first - 1) + twos)

\* commonPrefixLenIgnoreCase(s, prefix)
RECURSIVE CommonPrefixLen(_, _)
CommonPrefixLen(s, prefix) ==
    IF s # <<>> /\ prefix # <<>> /\ Lower(Head(s)) = Head(prefix)
    THEN 1 + CommonPrefixLen(Tail(s), Tail(prefix)) ELSE 0

\* special(s): [ok, n, val], n the number of characters consumed.
Special(s) ==
    LET signed == s # <<>> /\ Head(s) \in {"+", "-"}
        body   == IF signed THEN Tail(s) ELSE s
        n0     == CommonPrefixLen(body, <<"i", "n", "f", "i", "n", "i", "t", "y">>)
        n      == IF 3 < n0 /\ n0 < 8 THEN 3 ELSE n0
        no     == [ok |-> FALSE, n |-> 0, val |-> FloatOf("num", FALSE, <<>>, 0)]
    IN  IF s = <<>> THEN no
        ELSE IF signed \/ Lower(Head(s)) = "i"
             THEN IF n = 3 \/ n = 8
                  THEN [ok |-> TRUE, n |-> n + (IF signed THEN 1 ELSE 0),
                        val |-> FloatOf("inf", Head(s) = "-", <<>>, 0)]
                  ELSE no
        ELSE IF Lower(Head(s)) = "n" /\ CommonPrefixLen(s, <<"n", "a", "n">>) = 3
             THEN [ok |-> TRUE, n |-> 3, val |-> FloatOf("nan", FALSE, <<>>, 0)]
        ELSE no

\* underscoreOK(s): an underscore stands only between two digits, the base
\* prefix counting as a digit.  saw is the kind of the last character:
\* "^" none yet, "0" a digit, "_" an underscore, "!" any other.
IsHexLetter(c) == \E i \in 1..6 : Lowers[i] = Lower(c)

HexLetterVal(c) == 9 + (CHOOSE i \in 1..6 : Lowers[i] = Lower(c))

RECURSIVE UnderscoreLoop(_, _, _, _)
UnderscoreLoop(s, i, hex, saw) ==
    IF i > Len(s) THEN saw # "_"
    ELSE IF IsDigit(s[i]) \/ (hex /\ IsHexLetter(s[i]))
         THEN UnderscoreLoop(s, i + 1, hex, "0")
    ELSE IF s[i] = "_"
         THEN saw = "0" /\ UnderscoreLoop(s, i + 1, hex, "_")
    ELSE saw # "_" /\ UnderscoreLoop(s, i + 1, hex, "!")

underscoreOK(s) ==
    LET body   == IF s # <<>> /\ Head(s) \in {"+", "-"} THEN Tail(s) ELSE s
        prefix == Len(body) >= 2 /\ body[1] = "0" /\ Lower(body[2]) \in {"b", "o", "x"}
    IN  IF prefix THEN UnderscoreLoop(body, 3, Lower(body[2]) = "x", "0")
        ELSE UnderscoreLoop(body, 1, FALSE, "^")

\* One turn of the mantissa loop of readFloat on s[r.i]; stop is set where
\* the loop breaks.  mant holds the digits the loop keeps, all every digit,
\* those included that the loop leaves out of mant and that the decimal
\* conversion reads again from the text (decimal.set); the two are one
\* number until a digit is left out.
MaxMantDigits(base) == IF base = 16 THEN 16 ELSE 19

MantStep(s, base, r) ==
    LET c    == s[r.i]
        next == [r EXCEPT !.i = @ + 1]
        keep == r.ndMant < MaxMantDigits(base)
        digit(grown) ==
            [next EXCEPT !.sawdigits = TRUE, !.nd = @ + 1, !.all = grown,
                         !.mant = IF keep THEN grown ELSE @,
                         !.ndMant = IF keep THEN @ + 1 ELSE @,
                         !.trunc = @ \/ (~keep /\ c # "0")]
    IN  IF c = "_" THEN [next EXCEPT !.under = TRUE]
        ELSE IF c = "."
             THEN IF r.sawdot THEN [r EXCEPT !.stop = TRUE]
                  ELSE [next EXCEPT !.sawdot = TRUE, !.dp = r.nd]
        ELSE IF c = "0" /\ r.nd = 0
             THEN [next EXCEPT !.sawdigits = TRUE, !.dp = @ - 1]
        ELSE IF IsDigit(c) \/ (base = 16 /\ IsHexLetter(c))
             THEN CHOOSE x \in
                    { digit(grown)
                      : grown \in {MulSmall(r.all, base,
                                             IF IsDigit(c) THEN DigitVal(c)
                                             ELSE HexLetterVal(c))} } : TRUE
        ELSE [r EXCEPT !.stop = TRUE]

\* The loop over the characters lo..hi of s, from the state r at lo.  The
\* range is halved, so that the depth of the evaluation is the logarithm of
\* the length of the text.
RECURSIVE MantLoop(_, _, _, _, _)
MantLoop(s, base, r, lo, hi) ==
    IF lo > hi \/ r.stop THEN r
    ELSE IF lo = hi THEN MantStep(s, base, r)
    ELSE CHOOSE x \in
           { MantLoop(s, base, l, (lo + hi) \div 2 + 1, hi)
             : l \in {MantLoop(s, base, r, lo, (lo + hi) \div 2)} } : TRUE

\* The digits of the exponent, underscores among them: [i, e, under].
RECURSIVE ExpLoop(_, _)
ExpLoop(s, x) ==
    IF x.i > Len(s) THEN x
    ELSE IF s[x.i] = "_" THEN ExpLoop(s, [x EXCEPT !.i = @ + 1, !.under = TRUE])
    ELSE IF IsDigit(s[x.i])
         THEN ExpLoop(s, [x EXCEPT !.i = @ + 1,
                                   !.e = IF @ < 10000 THEN @ * 10 + DigitVal(s[x.i]) ELSE @])
    ELSE x

\* readFloat(s): [ok, n, neg, hex, trunc, mant, exp], n the number of
\* characters consumed and the number read mant * base^exp, the base of
\* the exponent being 2 for a hexadecimal text and 10 for a decimal one;
\* with them the decimal that decimal.set reads: the digits all, their
\* number nd and the place dp of the point, for 0.all * 10^dp.
ReadFloat(s) ==
    LET sn   == IF s # <<>> /\ Head(s) \in {"+", "-"} THEN 1 ELSE 0
        neg  == s # <<>> /\ Head(s) = "-"
        hex  == sn + 3 <= Len(s) /\ s[sn + 1] = "0" /\ Lower(s[sn + 2]) = "x"
        no   == [ok |-> FALSE, n |-> 0, neg |-> neg, hex |-> hex, trunc |-> FALSE,
                 mant |-> <<>>, exp |-> 0, all |-> <<>>, nd |-> 0, dp |-> 0]
        rest(m) ==
            LET dp   == (IF m.sawdot THEN m.dp ELSE m.nd) * (IF hex THEN 4 ELSE 1)
                ndM  == m.ndMant * (IF hex THEN 4 ELSE 1)
                hasE == m.i <= Len(s) /\ Lower(s[m.i]) = (IF hex THEN "p" ELSE "e")
                j    == m.i + 1
                esgn == j <= Len(s) /\ s[j] \in {"+", "-"}
                eneg == j <= Len(s) /\ s[j] = "-"
                k    == IF esgn THEN j + 1 ELSE j
                yes(n, point, under) ==
                    IF under /\ ~underscoreOK(TakeN(s, n)) THEN no
                    ELSE [ok |-> TRUE, n |-> n, neg |-> neg, hex |-> hex,
                          trunc |-> m.trunc, mant |-> m.mant,
                          exp |-> IF m.mant # <<>> THEN point - ndM ELSE 0,
                          all |-> m.all, nd |-> m.nd, dp |-> point]
            IN  IF s = <<>> \/ ~m.sawdigits THEN no
                ELSE IF hasE
                     THEN IF k > Len(s) \/ ~IsDigit(s[k]) THEN no
                          ELSE CHOOSE r \in
                                 { yes(x.i - 1, dp + (IF eneg THEN 0 - x.e ELSE x.e), x.under)
                                   : x \in {ExpLoop(s, [i |-> k, e |-> 0, under |-> m.under])} }
                                 : TRUE
                ELSE IF hex THEN no
                ELSE yes(m.i - 1, dp, m.under)
    IN  CHOOSE r \in
          { rest(m)
            : m \in {MantLoop(s, IF hex THEN 16 ELSE 10,
                              [i |-> sn + 1 + (IF hex THEN 2 ELSE 0), mant |-> <<>>,
                               all |-> <<>>, nd |-> 0, ndMant |-> 0, dp |-> 0,
                               sawdot |-> FALSE, sawdigits |-> FALSE,
                               under |-> FALSE, trunc |-> FALSE, stop |-> FALSE],
                              sn + 1 + (IF hex THEN 2 ELSE 0), Len(s))} } : TRUE

\* The float formats: bits of the mantissa, least and greatest exponent.
MantBits(bits) == IF bits = 32 THEN 23 ELSE 52

MinExp(bits) == IF bits = 32 THEN -126 ELSE -1022

MaxExp(bits) == IF bits = 32 THEN 127 ELSE 1023

\* The float nearest to mant * 2^exp, half to even, sticky telling that the
\* number is a little more than mant * 2^exp: [range, val], range when the
\* float is an infinity.  drop is the number of low bits of mant that the
\* float cannot hold, either beyond its mantissa or below its least
\* (denormal) exponent.
Nearest(mant, exp, sticky, neg, bits) ==
    LET len   == BigBitLen(mant)
        over  == len - (MantBits(bits) + 1)
        under == (MinExp(bits) - MantBits(bits)) - exp
        drop  == IF over >= under THEN over ELSE under
        rounded(t, q) ==
            [m |-> IF t.q # <<>> /\ Head(t.q) % 2 = 1
                      /\ (sticky \/ t.sticky \/ (q # <<>> /\ Head(q) % 2 = 1))
                   THEN AddOne(q) ELSE q,
             e |-> exp + drop]
        kept  == IF mant = <<>> \/ drop > len THEN [m |-> <<>>, e |-> 0]
                 ELSE IF drop <= 0 THEN [m |-> mant, e |-> exp]
                 ELSE CHOOSE x \in UNION
                        { { rounded(t, h.q) : h \in {ShiftRight(t.q, 1)} }
                          : t \in {ShiftRight(mant, drop - 1)} } : TRUE
    IN  CHOOSE x \in
          { [range |-> r.m # <<>> /\ BigBitLen(r.m) + r.e - 1 > MaxExp(bits),
             val |-> Normal(neg, r.m, r.e)] : r \in {kept} } : TRUE

\* atofHex: the float of a hexadecimal text, trunc telling that digits
\* beyond the mantissa read were not zero.
atofHex(mant, exp, neg, trunc, bits) == Nearest(mant, exp, trunc, neg, bits)

\* The float of a decimal text (atof32, atof64), as decimal.floatBits finds
\* it and as the shorter ways of the library agree: 0 when there is no digit
\* that is not 0, an infinity when the point is beyond place 310, 0 when it
\* is before place -330, else the float nearest to all * 10^(dp - nd).  A
\* negative power of ten is divided out of all * 2^(15 n), n large enough
\* to leave more bits than a mantissa holds.
floatBits(all, nd, dp, neg, bits) ==
    LET k == nd - dp
        n == (4 * k + 64) \div LimbBits + 1
        scaled ==
            IF all = <<>> \/ dp < -330 THEN [m |-> <<>>, e |-> 0, sticky |-> FALSE]
            ELSE IF k <= 0 THEN [m |-> MulPow10(all, 0 - k), e |-> 0, sticky |-> FALSE]
            ELSE CHOOSE x \in
                   { [m |-> w.q, e |-> 0 - LimbBits * n, sticky |-> w.sticky]
                     : w \in {DivPow10([i \in 1..n |-> 0] \o all, k, FALSE)} } : TRUE
    IN  IF all # <<>> /\ dp > 310
        THEN [range |-> TRUE, val |-> FloatOf("inf", neg, <<>>, 0)]
        ELSE CHOOSE x \in { Nearest(a.m, a.e, a.sticky, neg, bits) : a \in {scaled} } : TRUE

ParseFloat(s, bits) ==
    LET sp == Special(s)
        float(rf) ==
            IF rf.hex THEN atofHex(rf.mant, rf.exp, rf.neg, rf.trunc, bits)
            ELSE floatBits(rf.all, rf.nd, rf.dp, rf.neg, bits)
        number(rf) ==
            IF ~rf.ok \/ rf.n # Len(s) THEN Fail(NumError("ParseFloat", s, ErrSyntax))
            ELSE CHOOSE r \in
                   { IF f.range THEN Fail(NumError("ParseFloat", s, ErrRange))
                     ELSE Ok(f.val) : f \in {float(rf)} } : TRUE
    IN  IF sp.ok
        THEN IF sp.n = Len(s) THEN Ok(sp.val)
             ELSE Fail(NumError("ParseFloat", s, ErrSyntax))
        ELSE CHOOSE r \in { number(rf) : rf \in {ReadFloat(s)} } : TRUE

(***************************************************************************)
(* Types (reflect.Type).  k is the kind; name is the name of a basic or    *)
(* library type as Type.String() gives it, and the key of a struct type in *)
(* StructFields.  time.Duration has kind int (64 bits) and time.Time kind  *)
(* struct.                                                                 *)
(***************************************************************************)
StringT == [k |-> "string", name |-> "string"]

BoolT == [k |-> "bool", name |-> "bool"]

IntT(bits, name) == [k |-> "int", bits |-> bits, name |-> name]

UintT(bits, name) == [k |-> "uint", bits |-> bits, name |-> name]

FloatT(bits, name) == [k |-> "float", bits |-> bits, name |-> name]

DurationT == IntT(64, "time.Duration")

StructT(name) == [k |-> "struct", name |-> name]

TimeT == StructT("time.Time")

SliceT(elem) == [k |-> "slice", elem |-> elem]

PtrT(elem) == [k |-> "ptr", elem |-> elem]

MapT(name) == [k |-> "map", name |-> name]

\* A reflect.StructField: its name, PkgPath ("" when exported), the value of
\* Tag.Get("env") ("" when the field has no env tag) and its type.
Fld(name, pkg, tag, type) == [name |-> name, pkg |-> pkg, tag |-> tag, type |-> type]

(***************************************************************************)
(* The record types the calls are made on.                                 *)
(*   Config                     the package's own type: no env tags;       *)
(*   TestConfig, NestedConfig   the types of the package's tests;          *)
(*   Options, Inner             one field of every kind the walker and the *)
(*                              leaf parser tell apart, the last a list of *)
(*                              records;                                   *)
(*   Node                       a type that refers to itself by a pointer; *)
(*   time.Time                  the three unexported fields of the library *)
(*                              type.                                      *)
(***************************************************************************)
StructFields(name) ==
    CASE name = "Config" ->
           << Fld("Server", "", "", StructT("Config.Server")),
              Fld("Database", "", "", StructT("Config.Database")) >>
      [] name = "Config.Server" ->
           << Fld("Port", "", "", IntT(64, "int")), Fld("Host", "", "", StringT) >>
      [] name = "Config.Database" ->
           << Fld("User", "", "", StringT), Fld("Password", "", "", StringT),
              Fld("Name", "", "", StringT) >>
      [] name = "TestConfig" ->
           << Fld("Server", "", "", StructT("ServerConfig")),
              Fld("Database", "", "", StructT("DatabaseConfig")) >>
      [] name = "ServerConfig" ->
           << Fld("Port", "", "SERVER_PORT", IntT(64, "int")),
              Fld("Host", "", "SERVER_HOST", StringT) >>
      [] name = "DatabaseConfig" ->
           << Fld("User", "", "DB_USER", StringT),
              Fld("Password", "", "DB_PASSWORD", StringT),
              Fld("Name", "", "DB_NAME", StringT) >>
      [] name = "NestedConfig" ->
           << Fld("Level1", "", "", StructT("NestedConfig.Level1")) >>
      [] name = "NestedConfig.Level1" ->
           << Fld("Name", "", "LEVEL1_NAME", StringT),
              Fld("Level2", "", "", PtrT(StructT("NestedConfig.Level2"))) >>
      [] name = "NestedConfig.Level2" ->
           << Fld("Value", "", "LEVEL2_VALUE", IntT(64, "int")),
              Fld("Flag", "", "LEVEL2_FLAG", BoolT),
              Fld("Tags", "", "LEVEL2_TAGS", SliceT(IntT(64, "int"))),
              Fld("Label", "", "LEVEL2_LABEL", StringT) >>
      [] name = "Options" ->
           << Fld("Plain", "", "", IntT(64, "int")),
              Fld("Skip", "", "-", StringT),
              Fld("hidden", "lib", "HIDDEN", IntT(8, "int8")),
              Fld("Count", "", "COUNT", IntT(8, "int8")),
              Fld("Size", "", "SIZE", UintT(8, "uint8")),
              Fld("On", "", "ON", BoolT),
              Fld("Ratio", "", "RATIO", FloatT(32, "float32")),
              Fld("Timeout", "", "TIMEOUT", DurationT),
              Fld("When", "", "WHEN", TimeT),
              Fld("Tags", "", "TAGS", SliceT(IntT(8, "int8"))),
              Fld("Opt", "", "OPT", PtrT(IntT(8, "int8"))),
              Fld("Sub", "", "", StructT("Inner")),
              Fld("Ref", "", "", PtrT(StructT("Inner"))),
              Fld("At", "", "AT", PtrT(TimeT)),
              Fld("Meta", "", "META", MapT("map[string]string")),
              Fld("Last", "", "LAST", StringT),
              Fld("Subs", "", "SUBS", SliceT(StructT("Options.Subs"))) >>
      [] name = "Options.Subs" ->
           << Fld("N", "", "N", IntT(8, "int8")) >>
      [] name = "Inner" ->
           << Fld("Depth", "", "DEPTH", IntT(8, "int8")),
              Fld("Note", "", "", StringT) >>
      [] name = "Node" ->
           << Fld("V", "", "V", IntT(8, "int8")),
              Fld("Next", "", "", PtrT(StructT("Node"))) >>
      [] name = "time.Time" ->
           << Fld("wall", "time", "", UintT(64, "uint64")),
              Fld("ext", "time", "", IntT(64, "int64")),
              Fld("loc", "time", "", PtrT(StructT("time.Location"))) >>

NumField(t) == Len(StructFields(t.name))

\* Type.String(): a named struct type with the name of its package, an
\* unnamed one as its literal, "struct { Name Type "tag"; ... }", the tag
\* (here the env key alone) quoted by strconv.Quote.  The struct types of
\* package time keep their name; those written without a name, as the type
\* of a field, are listed.
RECURSIVE TypeString(_)
RECURSIVE FieldsString(_)
FieldsString(fields) ==
    IF fields = <<>> THEN <<>>
    ELSE LET sf == Head(fields)
         IN  <<sf.name, " ">> \o TypeString(sf.type)
               \o (IF sf.tag = "" THEN <<>>
                   ELSE <<" ">> \o Quote(<<"env:", "\"", sf.tag, "\"">>))
               \o (IF Tail(fields) = <<>> THEN <<>>
                   ELSE <<"; ">> \o FieldsString(Tail(fields)))

TypeString(t) ==
    IF t.k = "ptr" THEN <<"*">> \o TypeString(t.elem)
    ELSE IF t.k = "slice" THEN <<"[]">> \o TypeString(t.elem)
    ELSE IF t.k # "struct" \/ t.name \in {"time.Time", "time.Location"} THEN <<t.name>>
    ELSE IF t.name \notin {"Config.Server", "Config.Database", "NestedConfig.Level1",
                            "NestedConfig.Level2", "Options.Subs"}
         THEN <<"lib.", t.name>>
    ELSE IF StructFields(t.name) = <<>> THEN <<"struct {}">>
    ELSE <<"struct { ">> \o FieldsString(StructFields(t.name)) \o <<" }">>

(***************************************************************************)
(* Values and memory                                                       *)
(***************************************************************************)
NilSlice == [nil |-> TRUE, elems |-> <<>>]

SliceOf(elems) == [nil |-> FALSE, elems |-> elems]

NilMap == [nil |-> TRUE, len |-> 0]

\* reflect.Zero(t)
RECURSIVE Zero(_)
Zero(t) ==
    CASE t.k = "string" -> <<>>
      [] t.k = "bool"   -> FALSE
      [] t.k = "int"    -> IF t.name = "time.Duration" THEN DurationOf(FALSE, 0, 0) ELSE 0
      [] t.k = "uint"   -> 0
      [] t.k = "float"  -> FloatOf("num", FALSE, <<>>, 0)
      [] t.k = "slice"  -> NilSlice
      [] t.k = "ptr"    -> 0
      [] t.k = "map"    -> NilMap
      [] t.k = "struct" ->
           IF t.name = "time.Time" THEN TimeOf(1, 1, 1, 0, 0, 0, 0, 0, TRUE)
           ELSE [i \in 1..NumField(t) |-> Zero(StructFields(t.name)[i].type)]

Obj(t, v) == [t |-> t, v |-> v]

\* reflect.New(t): a fresh zero object at the next address.
New(mem, t) == Append(mem, Obj(t, Zero(t)))

\* v.Field(i1).Field(i2)..., for the path p = <<i1, i2, ...>>
RECURSIVE GetIn(_, _)
GetIn(v, p) == IF p = <<>> THEN v ELSE GetIn(v[Head(p)], Tail(p))

RECURSIVE SetIn(_, _, _)
SetIn(v, p, x) ==
    IF p = <<>> THEN x ELSE [v EXCEPT ![Head(p)] = SetIn(v[Head(p)], Tail(p), x)]

Load(mem, a, p) == GetIn(mem[a].v, p)

\* fv.Set(x) on the field at path p of the object at a
Store(mem, a, p, x) == [mem EXCEPT ![a].v = SetIn(mem[a].v, p, x)]

(***************************************************************************)
(* State                                                                   *)
(*   env         the process environment: for every name, whether it is    *)
(*               set and its text;                                         *)
(*   mem         the memory holding the target;                            *)
(*   out         the argument of the call (an interface value);            *)
(*   configFile  the path given to LoadConfig;                             *)
(*   fs          what the file system and the TOML decoder answer for it;  *)
(*   pc          "ready" before the call, then "returned", "exited"        *)
(*               (log.Fatalf) or "crashed" (the goroutine stack limit);    *)
(*   op          the function that was called;                             *)
(*   res         what the call did: its error, the names it looked up, the *)
(*               fields it visited, and the memory before it, at the       *)
(*               entry of LoadEnv and after it.                            *)
(***************************************************************************)
VARIABLES env, mem, out, configFile, fs, pc, op, res

vars == <<env, mem, out, configFile, fs, pc, op, res>>

\* The frames of loadInto the goroutine stack holds before the runtime ends
\* the process.
MaxStack == 4

\* The variables set before a call on an Options target, which has the most
\* tags; the tests of the package set up to five for their own types.
MaxSet == 2

(***************************************************************************)
(* getenv (os.LookupEnv)                                                   *)
(***************************************************************************)
Unset == [set |-> FALSE, text |-> <<>>]

getenv(name) == IF name \in DOMAIN env THEN env[name] ELSE Unset

(***************************************************************************)
(* setValueFromString(v, s).  v is given by its type and current value;    *)
(* the result is the memory (reflect.New may have added to it), the value  *)
(* v holds afterwards and the error.                                       *)
(***************************************************************************)
Assigned(m, val) == [mem |-> m, val |-> val, err |-> NoError]

Rejected(m, cur, err) == [mem |-> m, val |-> cur, err |-> err]

FromParse(m, cur, r) == IF r.err # NoError THEN Rejected(m, cur, r.err) ELSE Assigned(m, r.val)

RECURSIVE setValueFromString(_, _, _, _)
RECURSIVE setElems(_, _, _, _)

\* The loop over parts: slice.Index(i) starts as the zero value of the
\* element type; the first error ends the loop.
setElems(m, elem, parts, done) ==
    IF parts = <<>> THEN Assigned(m, done)
    ELSE CHOOSE x \in
           { IF r.err # NoError THEN Rejected(r.mem, done, r.err)
             ELSE setElems(r.mem, elem, Tail(parts), Append(done, r.val))
             : r \in {setValueFromString(m, elem, Zero(elem), Head(parts))} } : TRUE

setValueFromString(m, t, cur, s) ==
    IF t.k = "int" /\ t.name = "time.Duration" THEN FromParse(m, cur, ParseDuration(s))
    ELSE CASE t.k = "string" -> Assigned(m, s)
           [] t.k = "bool"   -> FromParse(m, cur, ParseBool(s))
           [] t.k = "int"    -> FromParse(m, cur, ParseInt(s, t.bits))
           [] t.k = "uint"   -> FromParse(m, cur, ParseUint(s, t.bits))
           [] t.k = "float"  -> FromParse(m, cur, ParseFloat(s, t.bits))
           [] t.k = "slice"  ->
                CHOOSE x \in
                  { IF r.err # NoError THEN Rejected(r.mem, cur, r.err)
                    ELSE Assigned(r.mem, SliceOf(r.val))
                    : r \in {setElems(m, t.elem, splitComma(s), <<>>)} } : TRUE
           [] t.k = "ptr"    ->
                LET m1 == IF cur = 0 THEN New(m, t.elem) ELSE m
                    a  == IF cur = 0 THEN Len(m) + 1 ELSE cur
                IN  CHOOSE x \in
                      { [mem |-> [r.mem EXCEPT ![a].v = r.val], val |-> a, err |-> r.err]
                        : r \in {setValueFromString(m1, t.elem, m1[a].v, s)} } : TRUE
           [] OTHER ->
                Rejected(m, cur, <<"unsupported field type: ">> \o TypeString(t))

fieldErr(sf, err) == <<sf.name, ": ">> \o err

(***************************************************************************)
(* loadInto(v).  The walk state st holds the memory, the error returned so *)
(* far, whether the stack limit was hit, the names looked up and the       *)
(* fields visited, in order.  v is the struct of type t at path p of the   *)
(* object at address a; depth counts the frames of loadInto.               *)
(***************************************************************************)
\* A variant that takes "-" for a variable name.
AnyTag(tag) == tag # ""

UsableTag(tag) == tag # "" /\ tag # "-"

Stopped(st) == st.err # NoError \/ st.fatal

\* Lines 76-86: a time.Time field.
bindTime(st, a, q, sf) ==
    IF ~UsableTag(sf.tag) THEN st
    ELSE LET st1 == [st EXCEPT !.reads = Append(@, sf.tag)]
             e   == getenv(sf.tag)
         IN  IF ~e.set THEN st1
             ELSE CHOOSE x \in
                    { IF r.err # NoError THEN [st1 EXCEPT !.err = fieldErr(sf, r.err)]
                      ELSE [st1 EXCEPT !.mem = Store(@, a, q, r.val)]
                      : r \in {ParseTime(e.text)} } : TRUE

\* Lines 105-114: any other field that is not a struct or a pointer to one.
bindLeaf(st, a, q, sf) ==
    IF ~UsableTag(sf.tag) THEN st
    ELSE LET st1 == [st EXCEPT !.reads = Append(@, sf.tag)]
             e   == getenv(sf.tag)
         IN  IF ~e.set THEN st1
             ELSE CHOOSE x \in
                    { [st1 EXCEPT !.mem = Store(r.mem, a, q, r.val),
                                  !.err = IF r.err # NoError THEN fieldErr(sf, r.err)
                                          ELSE NoError]
                      : r \in {setValueFromString(st1.mem, sf.type, Load(st1.mem, a, q),
                                                  e.text)} } : TRUE

RECURSIVE loadInto(_, _, _, _, _)
RECURSIVE loadFields(_, _, _, _, _, _)

\* A variant that leaves a nil pointer alone.
walkPointerSkipNil(st, a, q, sf, depth) ==
    IF Load(st.mem, a, q) = 0 THEN st
    ELSE loadInto(st, Load(st.mem, a, q), <<>>, sf.type.elem, depth + 1)

\* Lines 92-102: a pointer to a struct is allocated when nil, then walked.
walkPointer(st, a, q, sf, depth) ==
    LET st1 == IF Load(st.mem, a, q) = 0
               THEN [st EXCEPT !.mem = Store(New(@, sf.type.elem), a, q, Len(@) + 1)]
               ELSE st
    IN  CHOOSE x \in { loadInto(s1, Load(s1.mem, a, q), <<>>, sf.type.elem, depth + 1)
                       : s1 \in {st1} } : TRUE

\* One iteration of the loop over the fields, and the iterations after it.
\* The state before the field and the state after it are each bound once,
\* as the elements of singleton sets.
loadFields(st, a, p, t, i, depth) ==
    IF i > NumField(t) THEN st
    ELSE LET sf  == StructFields(t.name)[i]
             q   == Append(p, i)
             field(s0) ==
                 LET st0 == [s0 EXCEPT !.visits = Append(@, [a |-> a, p |-> q])]
                 IN  IF sf.pkg # "" THEN st0
                     ELSE IF sf.type.k = "struct"
                          THEN IF sf.type.name = "time.Time" THEN bindTime(st0, a, q, sf)
                               ELSE loadInto(st0, a, q, sf.type, depth + 1)
                     ELSE IF sf.type.k = "ptr" /\ sf.type.elem.k = "struct"
                          THEN walkPointer(st0, a, q, sf, depth)
                     ELSE bindLeaf(st0, a, q, sf)
             rest(s2) == IF Stopped(s2) THEN s2 ELSE loadFields(s2, a, p, t, i + 1, depth)
         IN  CHOOSE r \in { rest(s2) : s2 \in { field(s0) : s0 \in {st} } } : TRUE

loadInto(st, a, p, t, depth) ==
    IF depth > MaxStack THEN [st EXCEPT !.fatal = TRUE]
    ELSE loadFields(st, a, p, t, 1, depth)

(***************************************************************************)
(* LoadEnv(out).  An interface value is [k, a, t]: k is "nil" for the      *)
(* untyped nil, "ptr" for a pointer (a its address, 0 when nil, t the type *)
(* it points to) and "value" for anything else of type t.                  *)
(***************************************************************************)
Walk(m) == [mem |-> m, err |-> NoError, fatal |-> FALSE, reads |-> <<>>, visits |-> <<>>]

\* A variant that walks a copy of a struct passed by value.
LoadEnvOnCopy(m, o) ==
    IF o.k = "nil" THEN [Walk(m) EXCEPT !.err = <<"nil target">>]
    ELSE IF o.k = "value" /\ o.t.k = "struct"
         THEN loadInto(Walk(New(m, o.t)), Len(m) + 1, <<>>, o.t, 1)
    ELSE IF o.k # "ptr" \/ o.a = 0 \/ o.t.k # "struct"
         THEN [Walk(m) EXCEPT !.err = <<"LoadEnv requires a pointer to a struct">>]
    ELSE loadInto(Walk(m), o.a, <<>>, o.t, 1)

LoadEnv(m, o) ==
    IF o.k = "nil" THEN [Walk(m) EXCEPT !.err = <<"nil target">>]
    ELSE IF o.k # "ptr" \/ o.a = 0 \/ o.t.k # "struct"
         THEN [Walk(m) EXCEPT !.err = <<"LoadEnv requires a pointer to a struct">>]
    ELSE loadInto(Walk(m), o.a, <<>>, o.t, 1)

(***************************************************************************)
(* toml.DecodeFile(configFile, value), the external decoder.  A file is a  *)
(* sequence of entries [p, val], the value val for the field at path p of  *)
(* the target; fs.applied of them are stored before the decoder returns,   *)
(* with an error unless fs.ok.  The decoder refuses a target that is not a *)
(* non-nil pointer to a struct.                                            *)
(***************************************************************************)
RECURSIVE ApplyEntries(_, _, _)
ApplyEntries(m, a, entries) ==
    IF entries = <<>> THEN m
    ELSE ApplyEntries(Store(m, a, Head(entries).p, Head(entries).val), a, Tail(entries))

DecodeFile(m, o, f) ==
    IF o.k # "ptr" \/ o.a = 0 \/ o.t.k # "struct"
    THEN [mem |-> m, err |-> <<"toml: cannot decode to ">> \o TypeString(o.t)]
    ELSE [mem |-> ApplyEntries(m, o.a, SubSeq(f.entries, 1, f.applied)),
          err |-> IF f.ok THEN NoError ELSE <<"toml: decode error">>]

(***************************************************************************)
(* LoadConfig(configFile, value).  The outcome is the walk of LoadEnv (or  *)
(* the memory as log.Fatalf left it), how the call ended, and whether the  *)
(* decoder and LoadEnv were called and on what memory.                     *)
(***************************************************************************)
Ended(w) == IF w.fatal THEN "crashed" ELSE "returned"

\* return LoadEnv(value), decoded telling whether the decoder ran before it
ViaLoadEnv(m, o, decoded) ==
    CHOOSE x \in
      { [walk |-> w, pc |-> Ended(w), decoded |-> decoded, envCalled |-> TRUE, memEnv |-> m]
        : w \in {LoadEnv(m, o)} } : TRUE

\* log.Fatalf: the process exits
Fatalf(m, decoded) ==
    [walk |-> Walk(m), pc |-> "exited", decoded |-> decoded, envCalled |-> FALSE,
     memEnv |-> m]

\* A variant that logs the failure of the file stage and goes on.
LoadConfigLogsOnly(m, path, o, f) ==
    IF path # ""
    THEN IF f.stat = "file"
         THEN ViaLoadEnv(DecodeFile(m, o, f).mem, o, TRUE)
         ELSE ViaLoadEnv(m, o, FALSE)
    ELSE ViaLoadEnv(m, o, FALSE)

\* Lines 29-41, the file stage: the memory it leaves, whether the decoder
\* ran, and whether log.Fatalf was reached.
FileStage(m, path, o, f) ==
    IF path # ""
    THEN IF f.stat = "file"                       \* err == nil && !fi.IsDir()
         THEN CHOOSE x \in { [mem |-> d.mem, decoded |-> TRUE, fatal |-> d.err # NoError]
                             : d \in {DecodeFile(m, o, f)} } : TRUE
         ELSE IF f.stat = "error"                 \* err != nil && !os.IsNotExist(err)
              THEN [mem |-> m, decoded |-> FALSE, fatal |-> TRUE]
         ELSE [mem |-> m, decoded |-> FALSE, fatal |-> FALSE]   \* no such file, or a directory
    ELSE [mem |-> m, decoded |-> FALSE, fatal |-> FALSE]

LoadConfig(m, path, o, f) ==
    CHOOSE x \in { IF g.fatal THEN Fatalf(g.mem, g.decoded)
                   ELSE ViaLoadEnv(g.mem, o, g.decoded)
                   : g \in {FileStage(m, path, o, f)} } : TRUE


(***************************************************************************)
(* The texts of the model.                                                 *)
(***************************************************************************)
T_old == <<"o", "l", "d">>

T_u == <<"t", "o", "m", "l", "-", "u", "s", "e", "r">>

T_pw == <<"t", "o", "m", "l", "-", "p", "a", "s", "s">>

T_n == <<"t", "o", "m", "l", "-", "d", "b">>

T_toml == <<"f", "r", "o", "m", "-", "t", "o", "m", "l">>

T_5678 == <<"5", "6", "7", "8">>

T_x == <<"x">>

T_list == <<"1", ",", " ", "2", " ", ",", "3">>

T_1x == <<"1", ",", "x">>

T_dup == <<"3", ",", ",", "3">>

T_true == <<"t", "r", "u", "e">>

T_yes == <<"y", "e", "s">>

T_42 == <<"4", "2">>

T_300 == <<"3", "0", "0">>

T_255 == <<"2", "5", "5">>

T_neg1 == <<"-", "1">>

T_1p5 == <<"1", ".", "5">>

T_1e39 == <<"1", "e", "3", "9">>

\* a decimal that no float holds: as a float32, 13421773 / 2^27
T_tenth == <<"0", ".", "1">>

\* 0x18 / 2^3 = 3, with an underscore between the two digits
T_hex == <<"0", "x", "1", "_", "8", "p", "-", "3">>

T_5s == <<"5", "s">>

T_150ms == <<"1", "5", "0", "m", "s">>

T_5sec == <<"5", " ", "s", "e", "c", "o", "n", "d", "s">>

\* one microsecond, spelt with the micro sign
T_1us == <<"1", "U+00B5", "s">>

\* a double quote alone
T_quote == <<"\"">>

\* "1" between a vertical tab and a no-break space
T_vt == <<"U+000B", "1", "U+00A0">>

T_rfc ==
    <<"2", "0", "2", "4", "-", "0", "2", "-", "2", "9",
      "T", "0", "3", ":", "0", "4", ":", "0", "5", "Z">>

T_date ==
    <<"2", "0", "2", "3", "-", "0", "2", "-", "2", "9",
      "T", "0", "3", ":", "0", "4", ":", "0", "5", "Z">>

\* a timestamp whose zone starts with U+00E9, two bytes where a sign is read
T_zone ==
    <<"2", "0", "2", "4", "-", "0", "2", "-", "2", "9",
      "T", "0", "3", ":", "0", "4", ":", "0", "5", "U+00E9", "1", "2", ":", "9", "9">>

T_root == <<"r", "o", "o", "t">>

(***************************************************************************)
(* The calls the model makes: targets, environments and files.             *)
(***************************************************************************)
Ptr(a, t) == [k |-> "ptr", a |-> a, t |-> t]

Time2020 == TimeOf(2020, 2, 29, 3, 4, 5, 0, 0, TRUE)

\* The targets: a memory and the argument that refers into it.  Every record
\* type is passed zero-valued and populated; then the arguments LoadEnv
\* refuses: the untyped nil, a nil *TestConfig, a *int8 and a TestConfig
\* passed by value.
ZeroTarget(name) == [mem |-> <<Obj(StructT(name), Zero(StructT(name)))>>,
                     out |-> Ptr(1, StructT(name))]

Targets ==
    << ZeroTarget("Config"), ZeroTarget("TestConfig"), ZeroTarget("NestedConfig"),
       ZeroTarget("Options"), ZeroTarget("Node"),
      [mem |-> <<Obj(StructT("TestConfig"),
                     << <<80, T_old>>, <<T_u, T_pw, T_n>> >>)>>,
       out |-> Ptr(1, StructT("TestConfig"))],
      [mem |-> <<Obj(StructT("NestedConfig"), << <<T_old, 2>> >>),
                 Obj(StructT("NestedConfig.Level2"), <<7, TRUE, SliceOf(<<9>>), T_n>>)>>,
       out |-> Ptr(1, StructT("NestedConfig"))],
      [mem |-> <<Obj(StructT("Options"),
                     <<1, T_u, 2, 3, 4, TRUE, Normal(FALSE, <<5>>, -1),
                       DurationOf(FALSE, 1, 0), Time2020, SliceOf(<<8>>), 2,
                       <<5, T_n>>, 3, 4, NilMap, T_old, SliceOf(<< <<7>> >>)>>),
                 Obj(IntT(8, "int8"), 6),
                 Obj(StructT("Inner"), <<4, T_pw>>),
                 Obj(TimeT, Time2020)>>,
       out |-> Ptr(1, StructT("Options"))],
      [mem |-> <<Obj(StructT("Node"), <<1, 2>>), Obj(StructT("Node"), <<2, 0>>)>>,
       out |-> Ptr(1, StructT("Node"))],
      [mem |-> <<Obj(StructT("TestConfig"), Zero(StructT("TestConfig")))>>,
       out |-> [k |-> "nil", a |-> 0, t |-> StructT("TestConfig")]],
      [mem |-> <<Obj(StructT("TestConfig"), Zero(StructT("TestConfig")))>>,
       out |-> Ptr(0, StructT("TestConfig"))],
      [mem |-> <<Obj(IntT(8, "int8"), 5)>>,
       out |-> Ptr(1, IntT(8, "int8"))],
      [mem |-> <<Obj(StructT("TestConfig"), Zero(StructT("TestConfig")))>>,
       out |-> [k |-> "value", a |-> 0, t |-> StructT("TestConfig")]] >>

\* The names a test sets for a target, and the texts it sets them to.
NamesFor(o) ==
    IF o.k = "ptr" /\ o.t.name = "NestedConfig"
    THEN {"LEVEL1_NAME", "LEVEL2_VALUE", "LEVEL2_FLAG", "LEVEL2_TAGS", "LEVEL2_LABEL"}
    ELSE IF o.k = "ptr" /\ o.t.name = "Options"
    THEN {"HIDDEN", "COUNT", "SIZE", "ON", "RATIO", "TIMEOUT", "WHEN", "TAGS", "OPT",
          "DEPTH", "AT", "META", "LAST", "SUBS", "-"}
    ELSE IF o.k = "ptr" /\ o.t.name = "Node" THEN {"V"}
    ELSE {"SERVER_PORT", "SERVER_HOST", "DB_USER", "DB_PASSWORD", "DB_NAME"}

EnvNames ==
    {"LEVEL1_NAME", "LEVEL2_VALUE", "LEVEL2_FLAG", "LEVEL2_TAGS", "LEVEL2_LABEL",
     "HIDDEN", "COUNT", "SIZE", "ON", "RATIO", "TIMEOUT", "WHEN", "TAGS", "OPT",
     "DEPTH", "AT", "META", "LAST", "SUBS", "-", "V",
     "SERVER_PORT", "SERVER_HOST", "DB_USER", "DB_PASSWORD", "DB_NAME"}

TextsFor(name) ==
    CASE name = "SERVER_PORT" -> {T_5678, T_x}
      [] name = "LEVEL2_VALUE" -> {T_5678, T_quote}
      [] name = "LEVEL2_TAGS" -> {T_list, <<>>, T_1x, T_dup}
      [] name = "TAGS" -> {T_list, <<>>, T_1x, T_dup, T_vt}
      [] name \in {"LEVEL2_FLAG", "ON"} -> {T_true, T_yes}
      [] name \in {"COUNT", "DEPTH", "V"} -> {T_42, T_300}
      [] name = "SIZE" -> {T_255, T_neg1}
      [] name = "RATIO" -> {T_1p5, T_1e39, T_hex, T_tenth}
      [] name = "TIMEOUT" -> {T_5s, T_150ms, T_5sec, T_1us}
      [] name = "WHEN" -> {T_rfc, T_date, T_x, T_zone}
      [] name = "AT" -> {T_rfc, T_date}
      [] name = "OPT" -> {T_42, T_x}
      [] OTHER -> {T_root}

\* The file of a target: entries for fields that are not pointers.
FileFor(o) ==
    IF o.t.k # "struct" THEN <<>>
    ELSE CASE o.t.name = "TestConfig" ->
                << [p |-> <<1, 1>>, val |-> 1234], [p |-> <<1, 2>>, val |-> T_toml],
                   [p |-> <<2, 1>>, val |-> T_u], [p |-> <<2, 2>>, val |-> T_pw],
                   [p |-> <<2, 3>>, val |-> T_n] >>
           [] o.t.name = "Config" ->
                << [p |-> <<1, 1>>, val |-> 1234], [p |-> <<1, 2>>, val |-> T_toml] >>
           [] o.t.name = "NestedConfig" ->
                << [p |-> <<1, 1>>, val |-> T_toml] >>
           [] o.t.name = "Options" ->
                << [p |-> <<4>>, val |-> 9], [p |-> <<10>>, val |-> SliceOf(<<5>>)],
                   [p |-> <<12, 1>>, val |-> 2], [p |-> <<16>>, val |-> T_toml] >>
           [] o.t.name = "Node" ->
                << [p |-> <<1>>, val |-> 5] >>

\* What os.Stat and the decoder answer: no such file, a directory, another
\* error, a file that decodes, and a file whose decoding fails after no
\* entry and after one.  The failures are played on the record types of the
\* package and of its tests; the other targets get the file that decodes.
Decodes(o) ==
    [stat |-> "file", entries |-> FileFor(o), applied |-> Len(FileFor(o)), ok |-> TRUE]

Answers(o) ==
    IF o.t.name \in {"Options", "Node"} THEN {Decodes(o)}
    ELSE { [stat |-> st, entries |-> FileFor(o), applied |-> 0, ok |-> FALSE]
             : st \in {"notexist", "dir", "error"} }
         \cup {Decodes(o)}
         \cup { [stat |-> "file", entries |-> FileFor(o), applied |-> n, ok |-> FALSE]
                  : n \in {k \in {0, 1} : k <= Len(FileFor(o))} }

NotCalled(m) ==
    [err |-> NoError, reads |-> <<>>, visits |-> <<>>, mem0 |-> m, memEnv |-> m,
     envCalled |-> FALSE, decoded |-> FALSE]

Init ==
    /\ \E i \in 1..Len(Targets) :
         /\ mem = Targets[i].mem
         /\ out = Targets[i].out
         /\ res = NotCalled(Targets[i].mem)
         /\ \/ /\ configFile = ""
               /\ fs = [stat |-> "notexist", entries |-> FileFor(Targets[i].out),
                        applied |-> 0, ok |-> FALSE]
            \/ /\ configFile = "config.toml"
               /\ fs \in Answers(Targets[i].out)
    /\ env = [n \in EnvNames |-> Unset]
    /\ pc = "ready"
    /\ op = "none"

\* os.Setenv(name, text), before the call
Setenv(name, text) ==
    /\ pc = "ready"
    /\ ~env[name].set
    /\ out.t.name = "Options" => Cardinality({n \in EnvNames : env[n].set}) < MaxSet
    /\ env' = [env EXCEPT ![name] = [set |-> TRUE, text |-> text]]
    /\ UNCHANGED <<mem, out, configFile, fs, pc, op, res>>

CallLoadEnv ==
    /\ pc = "ready"
    /\ \E w \in {LoadEnv(mem, out)} :
           /\ mem' = w.mem
           /\ pc' = Ended(w)
           /\ res' = [err |-> w.err, reads |-> w.reads, visits |-> w.visits, mem0 |-> mem,
                      memEnv |-> mem, envCalled |-> TRUE, decoded |-> FALSE]
    /\ op' = "LoadEnv"
    /\ UNCHANGED <<env, out, configFile, fs>>

CallLoadConfig ==
    /\ pc = "ready"
    /\ \E r \in {LoadConfig(mem, configFile, out, fs)} :
           /\ mem' = r.walk.mem
           /\ pc' = r.pc
           /\ res' = [err |-> r.walk.err, reads |-> r.walk.reads, visits |-> r.walk.visits,
                      mem0 |-> mem, memEnv |-> r.memEnv, envCalled |-> r.envCalled,
                      decoded |-> r.decoded]
    /\ op' = "LoadConfig"
    /\ UNCHANGED <<env, out, configFile, fs>>

Next ==
    \/ \E name \in NamesFor(out) : \E text \in TextsFor(name) : Setenv(name, text)
    \/ CallLoadEnv
    \/ CallLoadConfig

Spec == Init /\ [][Next]_vars

(***************************************************************************)
(* What the claims speak of.                                               *)
(***************************************************************************)
ValidTarget == out.k = "ptr" /\ out.a # 0 /\ out.t.k = "struct"

Called == pc # "ready"

\* A field is named by the object that holds it, its path in that object,
\* the struct type that declares it and its index there.
FieldAt(a, q, tn, i) == [a |-> a, p |-> q, tn |-> tn, i |-> i]

Decl(f) == StructFields(f.tn)[f.i]

IsRecordKind(t) == t.k = "struct" /\ t.name # "time.Time"

IsRecordPointer(t) == t.k = "ptr" /\ t.elem.k = "struct"

\* The kinds the walker hands to the leaf parser or to time.Parse: scalars,
\* lists, timestamps and pointers to something that is not a struct.
IsLeafKind(t) == ~IsRecordKind(t) /\ ~IsRecordPointer(t)

\* The leaf kinds of the claims: scalars, lists, timestamps and pointers to
\* something that is not a record.  A timestamp is not a record, so that a
\* pointer to a timestamp is a leaf, though the walker takes it for a
\* pointer to a struct.
IsLeafType(t) == ~IsRecordKind(t) /\ ~(t.k = "ptr" /\ IsRecordKind(t.elem))

\* The fields of the struct of type t at path p of object a in memory m,
\* from the i-th on, in depth-first declaration order: a field, then the
\* fields of the record it holds or points to, then the fields declared
\* after it.
RECURSIVE FieldSeq(_, _, _, _, _, _)
FieldSeq(m, a, p, t, i, fuel) ==
    IF fuel = 0 \/ i > NumField(t) THEN <<>>
    ELSE LET sf == StructFields(t.name)[i]
             q  == Append(p, i)
         IN  <<FieldAt(a, q, t.name, i)>>
               \o (IF sf.pkg # "" THEN <<>>
                   ELSE IF IsRecordKind(sf.type)
                        THEN FieldSeq(m, a, q, sf.type, 1, fuel - 1)
                   ELSE IF sf.type.k = "ptr" /\ IsRecordKind(sf.type.elem)
                           /\ Load(m, a, q) # 0
                        THEN FieldSeq(m, Load(m, a, q), <<>>, sf.type.elem, 1, fuel - 1)
                   ELSE <<>>)
               \o FieldSeq(m, a, p, t, i + 1, fuel)

\* The fields of the struct of type t at path p of object a in memory m, and
\* of the records below it: nested structs, and structs behind the pointers
\* that are not nil.  Unexported fields are listed and not entered, and the
\* library type time.Time is not entered.
RECURSIVE FieldsBelow(_, _, _, _, _)
FieldsBelow(m, a, p, t, fuel) ==
    IF fuel = 0 THEN {}
    ELSE UNION { LET sf == StructFields(t.name)[i]
                     q  == Append(p, i)
                 IN  {FieldAt(a, q, t.name, i)} \cup
                     (IF sf.pkg # "" THEN {}
                      ELSE IF IsRecordKind(sf.type)
                           THEN FieldsBelow(m, a, q, sf.type, fuel - 1)
                      ELSE IF IsRecordPointer(sf.type) /\ sf.type.elem.name # "time.Time"
                              /\ Load(m, a, q) # 0
                           THEN FieldsBelow(m, Load(m, a, q), <<>>, sf.type.elem, fuel - 1)
                      ELSE {})
                 : i \in 1..NumField(t) }

\* The fields of the target in the memory the call left.
TargetFields == IF ValidTarget THEN FieldsBelow(mem, out.a, <<>>, out.t, MaxStack + 1) ELSE {}

\* The same fields in depth-first declaration order.
TargetOrder ==
    IF ValidTarget THEN FieldSeq(mem, out.a, <<>>, out.t, 1, MaxStack + 1) ELSE <<>>

\* The value of a field with what it points to: a pointer is its address
\* and, unless nil, the value behind it.
RECURSIVE Deep(_, _, _)
Deep(m, t, v) ==
    IF t.k # "ptr" THEN v
    ELSE IF v = 0 THEN [at |-> 0, to |-> <<>>]
    ELSE [at |-> v, to |-> <<Deep(m, t.elem, m[v].v)>>]

After(f) == Deep(mem, Decl(f).type, Load(mem, f.a, f.p))

\* The value at the entry of LoadEnv; a field of an object the call
\* allocated starts as the zero value.
Before(f) ==
    IF f.a <= Len(res.memEnv) THEN Deep(res.memEnv, Decl(f).type, Load(res.memEnv, f.a, f.p))
    ELSE Deep(res.memEnv, Decl(f).type, Zero(Decl(f).type))

Visited(f) == \E n \in 1..Len(res.visits) : res.visits[n] = [a |-> f.a, p |-> f.p]

\* The field at which the walk returned an error: the last one visited.
FailedAt(f) ==
    /\ res.err # NoError
    /\ res.visits # <<>>
    /\ res.visits[Len(res.visits)] = [a |-> f.a, p |-> f.p]

\* A usable binding tag: not empty and not the "-" sentinel.
HasUsableTag(f) == Decl(f).tag \notin {"", "-"}

Exported(f) == Decl(f).pkg = ""

IsSet(f) == env[Decl(f).tag].set

TextOf(f) == env[Decl(f).tag].text

Min(S) == CHOOSE x \in S : \A y \in S : x <= y

Max(S) == CHOOSE x \in S : \A y \in S : x >= y

\* The list a text stands for, said without the code's loop: the pieces
\* between the commas, each cut down to its first and last characters that
\* are not white space, the empty ones left out.
Commas(s) == {i \in 1..Len(s) : s[i] = ","}

NthComma(s, k) ==
    IF k = 0 THEN 0
    ELSE IF k > Cardinality(Commas(s)) THEN Len(s) + 1
    ELSE CHOOSE i \in Commas(s) : Cardinality({j \in Commas(s) : j <= i}) = k

Piece(s, k) == SubSeq(s, NthComma(s, k - 1) + 1, NthComma(s, k) - 1)

Trimmed(x) ==
    LET inked == {i \in 1..Len(x) : ~IsSpace(x[i])}
    IN  IF inked = {} THEN <<>> ELSE SubSeq(x, Min(inked), Max(inked))

NotEmpty(x) == x # <<>>

Segments(s) ==
    SelectSeq([k \in 1..(Cardinality(Commas(s)) + 1) |-> Trimmed(Piece(s, k))], NotEmpty)

\* What a text reads as for a leaf type: whether it parses, and the value
\* the field then holds (for a pointer, the value behind it).
RECURSIVE ReadingValue(_, _)
ReadingValue(t, s) ==
    LET of(r) == [ok |-> r.err = NoError, val |-> r.val]
    IN  IF t.k = "int" /\ t.name = "time.Duration" THEN of(ParseDuration(s))
        ELSE IF t.k = "string" THEN [ok |-> TRUE, val |-> s]
        ELSE IF t.k = "bool" THEN of(ParseBool(s))
        ELSE IF t.k = "int" THEN of(ParseInt(s, t.bits))
        ELSE IF t.k = "uint" THEN of(ParseUint(s, t.bits))
        ELSE IF t.k = "float" THEN of(ParseFloat(s, t.bits))
        ELSE IF t.k = "ptr"
             THEN [ok |-> ReadingValue(t.elem, s).ok, val |-> <<ReadingValue(t.elem, s).val>>]
        ELSE IF t.k = "slice"
             THEN LET segs == Segments(s)
                  IN  [ok  |-> \A i \in 1..Len(segs) : ReadingValue(t.elem, segs[i]).ok,
                       val |-> SliceOf([i \in 1..Len(segs) |->
                                           ReadingValue(t.elem, segs[i]).val])]
        ELSE [ok |-> FALSE, val |-> 0]

\* A field of type time.Time reads a timestamp, and a pointer to one a
\* timestamp behind the pointer; a record anywhere else (the element of a
\* list) reads nothing.
Reading(t, s) ==
    IF t = TimeT
    THEN CHOOSE x \in { [ok |-> r.err = NoError, val |-> r.val] : r \in {ParseTime(s)} } : TRUE
    ELSE IF t = PtrT(TimeT)
         THEN CHOOSE x \in { [ok |-> r.err = NoError, val |-> <<r.val>>]
                             : r \in {ParseTime(s)} } : TRUE
    ELSE ReadingValue(t, s)

\* The value of a field without the addresses: for a pointer, what it
\* points to.
RECURSIVE Content(_, _, _)
Content(m, t, v) ==
    IF t.k # "ptr" THEN v
    ELSE IF v = 0 THEN <<>>
    ELSE <<Content(m, t.elem, m[v].v)>>

Holds(f) == Content(mem, Decl(f).type, Load(mem, f.a, f.p))

\* A tagged leaf field: exported, of a leaf kind, with a usable tag.
TaggedLeaf(f) == Exported(f) /\ HasUsableTag(f) /\ IsLeafType(Decl(f).type)

\* Whether a struct type has a field with a usable tag, at any depth.
RECURSIVE HasTaggedBelow(_, _)
HasTaggedBelow(t, fuel) ==
    /\ fuel > 0
    /\ \E i \in 1..NumField(t) :
          LET sf == StructFields(t.name)[i]
          IN  /\ sf.pkg = ""
              /\ \/ sf.tag \notin {"", "-"} /\ IsLeafKind(sf.type)
                 \/ IsRecordKind(sf.type) /\ HasTaggedBelow(sf.type, fuel - 1)
                 \/ IsRecordPointer(sf.type) /\ sf.type.elem.name # "time.Time"
                    /\ HasTaggedBelow(sf.type.elem, fuel - 1)

\* LoadEnv ran on a valid target and returned.
EnvReturned == Called /\ res.envCalled /\ ValidTarget /\ pc = "returned"

----------------------------------------------------------------------------
(***************************************************************************)
(* C5.  LoadEnv returns an error at once, having looked up no variable and *)
(* changed nothing, when its argument is not a non-nil pointer to a        *)
(* struct: the untyped nil, a nil pointer to a struct, a pointer to        *)
(* something else, or a value that is no pointer.                          *)
(***************************************************************************)
C5_InvalidTargetRejected ==
    (op = "LoadEnv" /\ Called /\ ~ValidTarget) =>
        /\ pc = "returned"
        /\ res.err # NoError
        /\ res.reads = <<>>
        /\ res.visits = <<>>
        /\ mem = res.mem0

\* a struct passed by value, with two variables set
C5_Witness ==
    /\ op = "LoadEnv" /\ pc = "returned" /\ ~ValidTarget
    /\ out.k = "value"
    /\ env["SERVER_PORT"].set /\ env["SERVER_HOST"].set

(***************************************************************************)
(* C7.  LoadConfig gates the environment bind on the file stage.  With an  *)
(* empty path, or a path that does not exist, the decoder is not called,   *)
(* LoadEnv is called on the target as it was passed and LoadConfig returns *)
(* what LoadEnv returns.  With another error of os.Stat, or a decoding     *)
(* error, LoadEnv is never called and LoadConfig does not return success.  *)
(***************************************************************************)
DecodeFails == fs.stat = "file" /\ DecodeFile(res.mem0, out, fs).err # NoError

C7_FileStageGatesBind ==
    (op = "LoadConfig" /\ Called) =>
        /\ (configFile = "" \/ fs.stat = "notexist") =>
              /\ ~res.decoded
              /\ res.envCalled
              /\ res.memEnv = res.mem0
              /\ res.err = LoadEnv(res.mem0, out).err
              /\ mem = LoadEnv(res.mem0, out).mem
              /\ pc = Ended(LoadEnv(res.mem0, out))
        /\ (configFile # "" /\ (fs.stat = "error" \/ DecodeFails)) =>
              /\ ~res.envCalled
              /\ res.reads = <<>>
              /\ pc = "exited"

\* a decoding error after one entry was stored, with a variable set
C7_Witness ==
    /\ op = "LoadConfig" /\ pc = "exited"
    /\ fs.stat = "file" /\ ~fs.ok /\ fs.applied = 1
    /\ mem # res.mem0
    /\ env["SERVER_PORT"].set

(***************************************************************************)
(* C1.  LoadConfig on an existing file that decodes runs the decoder       *)
(* before the environment bind: when it returns without error, every       *)
(* tagged leaf field (a scalar, a list, a timestamp or a pointer to one of *)
(* these) holds the parsed form of its variable's text when the variable   *)
(* is set, and the value the file stage left when it is not.  File         *)
(* Port=1234, Host="from-toml" with only SERVER_PORT=5678 set gives        *)
(* Port=5678, Host="from-toml".                                            *)
(***************************************************************************)
C1_EnvOverridesFile ==
    (op = "LoadConfig" /\ configFile # "" /\ fs.stat = "file" /\ pc = "returned"
       /\ res.err = NoError) =>
        /\ res.decoded /\ res.envCalled
        /\ res.memEnv = ApplyEntries(res.mem0, out.a, fs.entries)
        /\ \A f \in TargetFields :
              TaggedLeaf(f) =>
                 IF IsSet(f)
                 THEN Reading(Decl(f).type, TextOf(f)).ok
                      /\ Holds(f) = Reading(Decl(f).type, TextOf(f)).val
                 ELSE After(f) = Before(f)
        /\ (out.t.name = "TestConfig" /\ env["SERVER_PORT"] = [set |-> TRUE, text |-> T_5678]
              /\ ~env["SERVER_HOST"].set) =>
                 Load(mem, 1, <<1, 1>>) = 5678 /\ Load(mem, 1, <<1, 2>>) = T_toml

(***************************************************************************)
(* C2.  After any LoadEnv call, every field that carries a usable tag      *)
(* whose variable is not set holds the value it held before the call, at   *)
(* any depth and whatever its kind: a scalar, a list, a timestamp, a       *)
(* pointer to something that is not a record.                              *)
(***************************************************************************)
C2_UnsetLeavesValue ==
    (Called /\ res.envCalled /\ ValidTarget) =>
        \A f \in TargetFields : (HasUsableTag(f) /\ ~IsSet(f)) => After(f) = Before(f)

(***************************************************************************)
(* C3.  For every field without a usable tag and any environment, LoadEnv  *)
(* never changes the field's value, at any depth.                          *)
(*   As claimed, fields that are a nested record or a pointer to one       *)
(*   included: C3_UntaggedUntouched.                                       *)
(*   As amended, for fields of a leaf kind: C3_UntaggedLeafUntouched.      *)
(***************************************************************************)
C3_UntaggedUntouched ==
    (Called /\ res.envCalled /\ ValidTarget) =>
        \A f \in TargetFields : ~HasUsableTag(f) => After(f) = Before(f)

C3_UntaggedLeafUntouched ==
    (Called /\ res.envCalled /\ ValidTarget) =>
        \A f \in TargetFields :
            (~HasUsableTag(f) /\ IsLeafKind(Decl(f).type)) => After(f) = Before(f)

\* a populated Options with a variable named "-" set, and COUNT bound
C3_Witness ==
    /\ op = "LoadEnv" /\ pc = "returned" /\ res.err = NoError
    /\ out.t.name = "Options"
    /\ env["-"].set /\ env["COUNT"].set
    /\ Load(res.mem0, 1, <<2>>) = T_u
    /\ Load(mem, 1, <<2>>) = T_u
    /\ Load(mem, 1, <<4>>) = 42

(***************************************************************************)
(* C4.  After a LoadEnv call that returns no error, every exported field   *)
(* that is a pointer to a record with a tagged descendant is not nil,      *)
(* whether or not a descendant's variable is set; a pointer that was not   *)
(* nil before the call holds the same address.                             *)
(***************************************************************************)
C4_RecordPointerAllocated ==
    (EnvReturned /\ res.err = NoError) =>
        \A f \in TargetFields :
            (Exported(f) /\ IsRecordPointer(Decl(f).type)
               /\ HasTaggedBelow(Decl(f).type.elem, MaxStack)) =>
                /\ Load(mem, f.a, f.p) # 0
                /\ (f.a <= Len(res.memEnv) /\ Load(res.memEnv, f.a, f.p) # 0) =>
                      Load(mem, f.a, f.p) = Load(res.memEnv, f.a, f.p)

\* a zero NestedConfig and no variable set: Level2 is allocated
C4_Witness ==
    /\ op = "LoadEnv" /\ pc = "returned" /\ res.err = NoError
    /\ out.t.name = "NestedConfig"
    /\ \A n \in EnvNames : ~env[n].set
    /\ Load(res.mem0, 1, <<1, 2>>) = 0
    /\ Load(mem, 1, <<1, 2>>) # 0

(***************************************************************************)
(* C6.  In LoadEnv a tagged field is assigned only when its text parses:   *)
(* when the walk returns an error at a field, that field holds the value   *)
(* it held before the call, for every leaf kind, a pointer that was nil    *)
(* included.                                                               *)
(***************************************************************************)
C6_FailedParseKeepsValue ==
    (EnvReturned /\ res.err # NoError) =>
        \A f \in TargetFields : FailedAt(f) => After(f) = Before(f)

(***************************************************************************)
(* C8.  When LoadEnv fails at some field k, the walk stops there: every    *)
(* tagged leaf field that precedes k in depth-first declaration order and  *)
(* whose variable is set holds its parsed value, and every field that      *)
(* follows k in that order holds the value it held before the call (no     *)
(* later variable is bound, no later nil pointer is allocated).  The field *)
(* k is a tagged field whose variable is set to a text that its type does  *)
(* not read, and the error names it.                                       *)
(***************************************************************************)
C8_WalkStopsAtFailure ==
    (EnvReturned /\ res.err # NoError) =>
        \E ord \in {TargetOrder} : \E k \in 1..Len(ord) :
            /\ Exported(ord[k]) /\ HasUsableTag(ord[k]) /\ IsSet(ord[k])
            /\ ~Reading(Decl(ord[k]).type, TextOf(ord[k])).ok
            /\ Head(res.err) = Decl(ord[k]).name
            /\ \A i \in 1..(k - 1) :
                  (TaggedLeaf(ord[i]) /\ IsSet(ord[i])) =>
                      /\ Reading(Decl(ord[i]).type, TextOf(ord[i])).ok
                      /\ Holds(ord[i]) = Reading(Decl(ord[i]).type, TextOf(ord[i])).val
            /\ \A i \in (k + 1)..Len(ord) : After(ord[i]) = Before(ord[i])

(***************************************************************************)
(* C9.  Binding a set variable to a list field replaces the field with the *)
(* list of its segments: the text split on commas, each segment trimmed,   *)
(* the empty ones dropped, each parsed as an element, in the order of the  *)
(* text with duplicates kept.  "1, 2 ,3" gives [1, 2, 3] and the empty     *)
(* text an empty list.  A segment that does not parse fails the bind at    *)
(* this field.                                                             *)
(***************************************************************************)
C9_ListFromSegments ==
    (Called /\ res.envCalled /\ ValidTarget) =>
        \A f \in TargetFields :
            (TaggedLeaf(f) /\ Decl(f).type.k = "slice" /\ IsSet(f) /\ Visited(f)) =>
                /\ IF Reading(Decl(f).type, TextOf(f)).ok
                   THEN After(f) = Reading(Decl(f).type, TextOf(f)).val /\ ~FailedAt(f)
                   ELSE FailedAt(f)
                /\ TextOf(f) = T_list => After(f) = SliceOf(<<1, 2, 3>>)
                /\ TextOf(f) = T_dup => After(f) = SliceOf(<<3, 3>>)
                /\ TextOf(f) = <<>> => After(f) = SliceOf(<<>>)
                /\ TextOf(f) = T_vt => After(f) = SliceOf(<<1>>)

\* "1, 2 ,3" replaces the list a populated NestedConfig held
C9_Witness ==
    /\ op = "LoadEnv" /\ pc = "returned" /\ res.err = NoError
    /\ out.t.name = "NestedConfig"
    /\ Load(res.mem0, 1, <<1, 2>>) = 2
    /\ res.mem0[2].v[3] = SliceOf(<<9>>)
    /\ env["LEVEL2_TAGS"] = [set |-> TRUE, text |-> T_list]
    /\ mem[2].v[3] = SliceOf(<<1, 2, 3>>)

(***************************************************************************)
(* C10.  Every LoadEnv call on a valid target returns, having visited each *)
(* field once at most and no more fields than the type graph of the target *)
(* has, a type that refers to itself through a pointer included.           *)
(***************************************************************************)
\* The fields of the type graph below the struct type name, from its i-th
\* field on: each field counts once on every path of declarations that
\* leads to it, a path ending where it would enter a type it is inside
\* (seen).  The walker enters the exported fields that are structs other
\* than time.Time or pointers to structs.
RECURSIVE PathFields(_, _, _)
PathFields(name, i, seen) ==
    IF i > Len(StructFields(name)) THEN 0
    ELSE LET sf    == StructFields(name)[i]
             below == IF sf.pkg # "" THEN ""
                      ELSE IF IsRecordKind(sf.type) THEN sf.type.name
                      ELSE IF IsRecordPointer(sf.type) THEN sf.type.elem.name
                      ELSE ""
         IN  1 + (IF below # "" /\ below \notin seen
                  THEN PathFields(below, 1, seen \cup {below}) ELSE 0)
               + PathFields(name, i + 1, seen)

TypeGraphSize(t) == PathFields(t.name, 1, {t.name})

C10_WalkTerminates ==
    (Called /\ res.envCalled /\ ValidTarget) =>
        /\ pc = "returned"
        /\ \A i, j \in 1..Len(res.visits) : res.visits[i] = res.visits[j] => i = j
        /\ Len(res.visits) <= TypeGraphSize(out.t)

====
